---- MODULE Spec2Model ----
(***************************************************************************)
(* Model of the email pipeline: the manual sync route                      *)
(* (app/api/sync/route.ts), the cron sync route                            *)
(* (app/api/cron/sync-emails/route.ts) with its secret check, getGmailClient*)
(* and fetchNewEmails with the request queue (lib/gmail), classifyEmail    *)
(* (lib/openai), unsubscribe detection (lib/unsubscribe-detector), the     *)
(* process route, the tiered unsubscribe executor (lib/unsubscribe-agent), *)
(* the unsubscribe, bulk-delete and category routes and the routes that    *)
(* manage the Gmail accounts of a user.                                    *)
(***************************************************************************)
EXTENDS Integers, Sequences, FiniteSets, TLC

NULL == "null"

(* ---------------- bounds and fixtures ---------------- *)

\* number of sync invocations (manual and cron together)
MaxRuns == 2
\* last instant of the clock (one unit = 24 hours)
MaxTime == 2

\* first-sync lookback window: 24 hours = one unit of the clock
Lookback == 1
\* pRetry retries of fetchNewEmails
FetchRetries == 3
\* confidence threshold of classifyEmail, in hundredths
Threshold == 70

Routes == {"manual", "cron"}
Accounts == <<"a1", "a2">>
AccountSet == {Accounts[i] : i \in 1..Len(Accounts)}

\* the external ids the provider may hold and when they were received
ReceivedAt == [m1 |-> 1, m2 |-> 1, m3 |-> 1]
GmailIds == {"m1", "m2", "m3"}

\* categories the user may have and what the AI service may answer
CategoryIds == {"c1", "c2"}
Confidences == {65, 70, 71}

VARIABLES
  mailbox,       \* the provider: per account, the ids of its messages
  email,         \* prisma.email: per gmailId, the rows stored with that id
  lastSyncedAt,  \* prisma.gmailAccount.lastSyncedAt per account
  nCategories,   \* number of categories of the user
  now,           \* the clock
  runs,          \* sync invocations started so far
  env,           \* the environment: may invocations overlap, may calls fail
  sync,          \* per route: the state of its running invocation
  proc,          \* the state of the running process invocation
  unsub,         \* the state of the running unsubscribe executor invocation
  det,           \* the state of one run of unsubscribe detection
  attempts,      \* prisma.unsubscribeAttempt: the rows in order of creation
  api,           \* the state of the running unsubscribe request
  queue,         \* the request queue: the state of each operation and the waiting line
  gmailAccounts, \* prisma.gmailAccount of one user: per address, the row if any
  oauth,         \* the add-account flow: state issued, callbacks past the limit check
  client,        \* the state of the running getGmailClient call
  cron,          \* the cron endpoint: the configured secret and its last request
  norm,          \* the state of one run of parseEmailMessage on a body
  vault,         \* lib/encryption: the master key, the ciphertexts sealed so far, the last unseal
  site,          \* the page the unsubscribe url serves: the texts of its buttons and links
  providerCalls  \* the calls made to the Gmail API so far: the method and whether it went through the queue

vars == <<mailbox, email, lastSyncedAt, nCategories, now, runs, env, sync, proc, unsub, det, attempts, api, queue, gmailAccounts, oauth, client, cron, norm, vault, site, providerCalls>>

(* ---------------- helpers ---------------- *)

SeqToSet(q) == {q[i] : i \in 1..Len(q)}

\* the subsequence of q whose elements are in S, order kept
RECURSIVE FilterSeq(_, _)
FilterSeq(q, S) ==
  IF q = <<>> THEN <<>>
  ELSE IF Head(q) \in S THEN <<Head(q)>> \o FilterSeq(Tail(q), S)
       ELSE FilterSeq(Tail(q), S)

\* the sequences over S of length at most n
SeqsUpTo(S, n) == UNION {[1..k -> S] : k \in 0..n}

\* getEncryptionKey throws: decrypt(account.refreshToken) in getGmailClient
\* fails with 'Decryption failed: ENCRYPTION_KEY environment variable is not set'
ConfigError == vault.key = NULL

\* a call of the Gmail API handed to the request queue, queue.add(() => ...)
ViaQueue(method) == [method |-> method, queued |-> TRUE]

\* a call of the Gmail API awaited where it is written
Direct(method) == [method |-> method, queued |-> FALSE]

StoredIds == {g \in GmailIds : email[g] # <<>>}

\* (variant: no unique constraint on gmailId)
UniqueViolationNever(gmailId) == FALSE

\* prisma.email.create on a gmailId that already has a row is rejected with
\* P2002 (unique constraint on gmailId)
UniqueViolation(gmailId) == email[gmailId] # <<>>


\* gmail.users.messages.list with q = "after:<afterTimestamp>": the ids of
\* the account's messages received after the timestamp, at most maxResults
RECURSIVE Take(_, _)
Take(q, n) == IF n = 0 \/ q = <<>> THEN <<>> ELSE <<Head(q)>> \o Take(Tail(q), n - 1)

MaxResults == 50

ListMessages(a, afterTimestamp) ==
  Take(FilterSeq(mailbox[a], {m \in GmailIds : ReceivedAt[m] > afterTimestamp}), MaxResults)

\* fetchNewEmails: the query watermark (last sync, or 24 hours back on first sync)
\* (lastSyncedAt[a] is the empty set for null, else the singleton of the time)
AfterDate(a) ==
  IF lastSyncedAt[a] # {} THEN CHOOSE t \in lastSyncedAt[a] : TRUE ELSE now - Lookback

(* ---------------- classifyEmail / summarizeEmail ---------------- *)

\* what the model may answer to a classification request
Responses == [categoryId : CategoryIds, confidence : Confidences]

\* (variant: the gate compares with <= instead of <)
ClassifyEmailInclusive(result) ==
  IF result.confidence <= Threshold
    THEN [categoryId |-> NULL, confidence |-> result.confidence]
    ELSE result

\* classifyEmail: the confidence gate applied to a parsed response
ClassifyEmail(result) ==
  IF result.confidence < Threshold
    THEN [categoryId |-> NULL, confidence |-> result.confidence]
    ELSE result

\* the outcomes of the AI block of a sync: summarizeEmail throws, or it
\* returns and classifyEmail throws, or both return
AIOutcomes(classify) ==
  IF classify
    THEN {[ai |-> "sumfail", response |-> NULL], [ai |-> "clsfail", response |-> NULL]}
         \cup {[ai |-> "ok", response |-> r] : r \in Responses}
    ELSE {[ai |-> "sumfail", response |-> NULL], [ai |-> "ok", response |-> NULL]}

\* manual sync classifies only if the user has categories; cron reaches the
\* AI block only with at least two categories and always classifies
Classifies(route) == route = "cron" \/ nCategories > 0

\* (variant: classification has a try of its own and still assigns a category
\* after summarizeEmail has thrown)
SyncAISeparateTry(route, o) ==
  IF o.ai = "sumfail" /\ Classifies(route)
    THEN [summary |-> NULL, categoryId |-> "c1", processed |-> 0]
  ELSE IF o.ai = "sumfail" THEN [summary |-> NULL, categoryId |-> NULL, processed |-> 0]
  ELSE IF ~Classifies(route) THEN [summary |-> "s", categoryId |-> NULL, processed |-> 1]
  ELSE IF o.ai = "clsfail" THEN [summary |-> "s", categoryId |-> NULL, processed |-> 0]
  ELSE [summary |-> "s", categoryId |-> ClassifyEmail(o.response).categoryId,
        processed |-> 1]

\* the try/catch around summarizeEmail and classifyEmail in both sync routes:
\* the summary and category that reach prisma.email.create, and whether the
\* processed counter was incremented
SyncAI(route, o) ==
  LET classify == Classifies(route) IN
  IF o.ai = "sumfail" THEN [summary |-> NULL, categoryId |-> NULL, processed |-> 0]
  ELSE IF ~classify THEN [summary |-> "s", categoryId |-> NULL, processed |-> 1]
  ELSE IF o.ai = "clsfail" THEN [summary |-> "s", categoryId |-> NULL, processed |-> 0]
  ELSE [summary |-> "s", categoryId |-> ClassifyEmail(o.response).categoryId,
        processed |-> 1]

(* ---------------- unsubscribe detection ---------------- *)

\* OAuth callbacks that may be under way at once
MaxCallbacks == 2

\* number of operations submitted to the request queue
MaxOps == 7

\* longest List-Unsubscribe header (in tokens) and body (in anchors) drawn
MaxUris == 2
MaxLinks == 2

\* what may stand between angle brackets in a List-Unsubscribe header
Uris == {"https://h/u", "http://g/u", "mailto:u@h", "ftp://f/u"}

\* a header value is a sequence of tokens: a URI in angle brackets or text
\* outside angle brackets; the empty sequence is the absent header ('')
Tokens == Uris \cup {"text"}

\* String.startsWith on the strings of the model
StartsWith ==
  [u \in {"https://h/u", "http://g/u", "mailto:u@h", "ftp://f/u",
          "https://b/unsubscribe", "https://b/home", "/unsubscribe"} |->
     CASE u \in {"https://h/u", "https://b/unsubscribe", "https://b/home"}
            -> {"http", "https://"}
       [] u = "http://g/u" -> {"http", "http://"}
       [] u = "mailto:u@h" -> {"mailto:"}
       [] OTHER -> {}]

\* the anchors with an href of a body: the href, whether the text and the
\* class match one of unsubscribePatterns, whether the anchor is in a footer
Hrefs == {"https://b/unsubscribe", "https://b/home", "/unsubscribe"}
Links == [href : Hrefs, text : BOOLEAN, class : BOOLEAN, footer : BOOLEAN]

\* unsubscribePatterns.some(pattern.test(hrefLower))
HrefMatches(href) == href \in {"https://b/unsubscribe", "/unsubscribe"}

\* the first element of q that is in S, or NULL
Find(q, S) == LET r == FilterSeq(q, S) IN IF r = <<>> THEN NULL ELSE Head(r)

\* (variant: the first URI is taken whatever its scheme)
ExtractFromHeaderFirst(headerValue) ==
  Find(headerValue, {u \in Uris : StartsWith[u] # {}})

\* extractFromHeader: the URIs in angle brackets, the first http one, else
\* the first mailto one, else null
ExtractFromHeader(headerValue) ==
  LET urls == FilterSeq(headerValue, Uris)
      httpUrl == Find(urls, {u \in Uris : "http" \in StartsWith[u]})
      mailtoUrl == Find(urls, {u \in Uris : "mailto:" \in StartsWith[u]})
  IN IF urls = <<>> THEN NULL
     ELSE IF httpUrl # NULL THEN httpUrl
     ELSE mailtoUrl

\* the priority extractFromBody gives an anchor
Priority(link) ==
  (IF HrefMatches(link.href) THEN 3 ELSE 0) + (IF link.text THEN 5 ELSE 0)
  + (IF link.class THEN 2 ELSE 0) + (IF link.footer THEN 1 ELSE 0)

\* extractFromBody: among the anchors with an http href and a positive
\* priority, the href of the first one of highest priority (stable sort)
ExtractFromBody(emailBody) ==
  LET candidateLinks ==
        FilterSeq(emailBody, {l \in Links : "http" \in StartsWith[l.href] /\ Priority(l) > 0})
      best == {i \in 1..Len(candidateLinks) :
                 \A j \in 1..Len(candidateLinks) :
                   Priority(candidateLinks[j]) <= Priority(candidateLinks[i])}
  IN IF candidateLinks = <<>> THEN NULL
     ELSE candidateLinks[CHOOSE i \in best : \A j \in best : i <= j].href

\* extractUnsubscribeInfo
ExtractUnsubscribeInfo(emailBody, headers) ==
  IF headers # <<>> /\ ExtractFromHeader(headers) # NULL
    THEN [url |-> ExtractFromHeader(headers), method |-> "header"]
  ELSE IF ExtractFromBody(emailBody) # NULL
    THEN [url |-> ExtractFromBody(emailBody), method |-> "link"]
  ELSE [url |-> NULL, method |-> "none"]

\* parseEmailMessage: the first <http://...> or <https://...> of the header
ParseUnsubscribe(listUnsubscribe) ==
  LET urlMatch == Find(listUnsubscribe,
                       {u \in Uris : StartsWith[u] \cap {"http://", "https://"} # {}})
  IN IF listUnsubscribe # <<>> /\ urlMatch # NULL
       THEN [unsubscribeLink |-> urlMatch, unsubscribeMethod |-> "header"]
       ELSE [unsubscribeLink |-> NULL, unsubscribeMethod |-> "none"]

\* (variant: the body link overrides the method only)
SyncUnsubscribeMethodOnly(emailData) ==
  LET unsubscribeInfo == ExtractUnsubscribeInfo(emailData.body, emailData.headers)
      parsed == ParseUnsubscribe(emailData.headers)
  IN IF unsubscribeInfo.method = "link"
       THEN [unsubscribeLink |-> parsed.unsubscribeLink, unsubscribeMethod |-> "link"]
       ELSE parsed

\* the link and method the sync routes store for a fetched message: those of
\* parseEmailMessage, replaced by the body link if detection returned one
SyncUnsubscribe(emailData) ==
  LET unsubscribeInfo == ExtractUnsubscribeInfo(emailData.body, emailData.headers)
      parsed == ParseUnsubscribe(emailData.headers)
  IN IF unsubscribeInfo.method = "link" /\ unsubscribeInfo.url # NULL
       THEN [unsubscribeLink |-> unsubscribeInfo.url, unsubscribeMethod |-> "link"]
       ELSE parsed

\* the messages of the provider: their List-Unsubscribe header and anchors
Payload ==
  [m1 |-> [headers |-> <<"mailto:u@h", "https://h/u">>, body |-> <<>>],
   m2 |-> [headers |-> <<"text">>,
           body |-> <<[href |-> "https://b/unsubscribe", text |-> TRUE,
                       class |-> FALSE, footer |-> FALSE]>>],
   m3 |-> [headers |-> <<>>, body |-> <<>>]]

(* ---------------- the sync routes ---------------- *)

\* what happened to the message handled last: its id, the AI outcome and
\* response, and the outcome of the database call
NoLast == [gmailId |-> NULL, ai |-> "none", response |-> NULL, db |-> "none"]

IdleSync ==
  [pc |-> "idle", acct |-> 1, attempt |-> 1,
   after |-> 0, listed |-> <<>>, got |-> <<>>, before |-> {}, emails |-> <<>>, i |-> 1,
   totalNewEmails |-> 0, totalProcessed |-> 0,
   accountNewEmails |-> 0, accountProcessed |-> 0,
   errors |-> <<>>, results |-> <<>>,
   last |-> NoLast, clean |-> TRUE, marked |-> {}, failed |-> {}]

Account(s) == Accounts[sync[s].acct]
Message(s) == sync[s].emails[sync[s].i]

\* the end of one iteration of "for (const account of gmailAccounts)"
NextAccount(rec) ==
  IF rec.acct < Len(Accounts)
    THEN [rec EXCEPT !.pc = "account", !.acct = @ + 1]
    ELSE [rec EXCEPT !.pc = "done"]

\* (variant: the message loop stops one message early)
NextMessageStopsEarly(rec) ==
  IF rec.i + 1 < Len(rec.emails)
    THEN [rec EXCEPT !.pc = "check", !.i = @ + 1]
    ELSE [rec EXCEPT !.pc = "mark"]

\* the end of one iteration of "for (const emailData of emails)"
NextMessage(rec) ==
  IF rec.i < Len(rec.emails)
    THEN [rec EXCEPT !.pc = "check", !.i = @ + 1]
    ELSE [rec EXCEPT !.pc = "mark"]

\* (variant: no try around one account, the error ends the invocation)
AccountCatchAborts(route, rec) ==
  [rec EXCEPT !.errors = Append(@, Accounts[rec.acct]), !.pc = "done"]

\* the catch of the per-account try: the error is recorded, the loop goes on
AccountCatch(route, rec) ==
  LET a == Accounts[rec.acct] IN
  NextAccount([rec EXCEPT
    !.errors = Append(@, a),
    !.results = IF route = "cron"
                  THEN Append(@, [account |-> a, status |-> "error", newEmails |-> 0])
                  ELSE @])

\* (variant: the duplicate-key code is not recognised)
MessageCatchNoP2002(route, rec, err) ==
  IF route = "manual" THEN AccountCatch(route, rec) ELSE NextMessage(rec)

\* the catch of the per-message try, for an error with code err
MessageCatch(route, rec, err) ==
  IF err = "P2002" THEN NextMessage(rec)
  ELSE IF route = "manual" THEN AccountCatch(route, rec)
  ELSE NextMessage(rec)

\* POST entered: the active accounts are read, counters and lists are fresh
SyncEnter(s) ==
  /\ sync[s].pc = "idle"
  /\ env.overlap \/ (proc.pc = "idle" /\ \A t \in Routes : sync[t].pc = "idle")
  /\ runs < MaxRuns
  /\ runs' = runs + 1
  /\ sync' = [sync EXCEPT ![s] = [IdleSync EXCEPT !.pc = "account"]]

\* a sync request whose checks of session or secret have passed
SyncStart(s) ==
  /\ SyncEnter(s)
  /\ UNCHANGED <<mailbox, email, lastSyncedAt, nCategories, now, env, proc, unsub, det, attempts, api, queue, gmailAccounts, oauth, client, cron, norm, vault, site, providerCalls>>

\* head of the per-account loop; cron skips an account with fewer than two
\* categories
SyncAccount(s) ==
  /\ sync[s].pc = "account"
  /\ LET rec == [sync[s] EXCEPT !.attempt = 1, !.after = 0, !.listed = <<>>,
                   !.got = <<>>, !.before = {}, !.emails = <<>>, !.i = 1, !.last = NoLast,
                   !.clean = TRUE, !.accountNewEmails = 0, !.accountProcessed = 0] IN
     sync' = [sync EXCEPT ![s] =
       IF s = "cron" /\ nCategories < 2
         THEN NextAccount([rec EXCEPT !.results =
                Append(@, [account |-> Account(s), status |-> "skipped", newEmails |-> 0])])
         ELSE [rec EXCEPT !.pc = "fetch"]]
  /\ UNCHANGED <<mailbox, email, lastSyncedAt, nCategories, now, runs, env, proc, unsub, det, attempts, api, queue, gmailAccounts, oauth, client, cron, norm, vault, site, providerCalls>>

\* one pRetry attempt of fetchNewEmails up to the message fetches: it throws,
\* in getGmailClient when the refresh token cannot be decrypted or elsewhere
\* (and is retried, or the error reaches the account catch once the retries
\* are used up), or it lists the messages after the watermark and fetches
\* them, a failed message fetch being dropped
SyncFetch(s) ==
  /\ sync[s].pc = "fetch"
  /\ \/ /\ env.faults \/ ConfigError
        /\ sync' = [sync EXCEPT ![s] =
             IF sync[s].attempt <= FetchRetries
               THEN [@ EXCEPT !.attempt = @ + 1]
               ELSE AccountCatch(s, [@ EXCEPT !.failed = @ \cup {Account(s)}])]
        /\ UNCHANGED providerCalls
     \/ \E lost \in SUBSET SeqToSet(ListMessages(Account(s), AfterDate(Account(s)))) :
          /\ ~ConfigError
          /\ env.faults \/ lost = {}
          /\ LET messages == ListMessages(Account(s), AfterDate(Account(s))) IN
             sync' = [sync EXCEPT ![s] =
               [@ EXCEPT !.pc = "filter", !.after = AfterDate(Account(s)),
                         !.listed = messages,
                         !.got = FilterSeq(messages, GmailIds \ lost),
                         !.clean = (lost = {})]]
          /\ providerCalls' = providerCalls \cup {ViaQueue("list")} \cup
               (IF ListMessages(Account(s), AfterDate(Account(s))) = <<>> THEN {}
                ELSE {ViaQueue("get")})
  /\ UNCHANGED <<mailbox, email, lastSyncedAt, nCategories, now, runs, env, proc, unsub, det, attempts, api, queue, gmailAccounts, oauth, client, cron, norm, vault, site>>

\* the rest of the attempt: the batch existence check (prisma.email.findMany)
\* drops the messages already stored; the others are parsed and returned
SyncFilter(s) ==
  /\ sync[s].pc = "filter"
  /\ LET newEmails == FilterSeq(sync[s].got, GmailIds \ StoredIds)
         rec == [sync[s] EXCEPT !.emails = newEmails, !.i = 1, !.got = <<>>,
                   !.before = StoredIds] IN
     sync' = [sync EXCEPT ![s] =
       IF newEmails = <<>> THEN [rec EXCEPT !.pc = "mark"] ELSE [rec EXCEPT !.pc = "check"]]
  /\ UNCHANGED <<mailbox, email, lastSyncedAt, nCategories, now, runs, env, proc, unsub, det, attempts, api, queue, gmailAccounts, oauth, client, cron, norm, vault, site, providerCalls>>

\* per message: prisma.email.findUnique by gmailId; an existing row is
\* skipped; a database error reaches the message catch
SyncCheck(s) ==
  /\ sync[s].pc = "check"
  /\ \/ /\ env.faults
        /\ sync' = [sync EXCEPT ![s] =
             MessageCatch(s, [@ EXCEPT
               !.last = [NoLast EXCEPT !.gmailId = Message(s), !.db = "dberror"],
               !.clean = FALSE, !.failed = @ \cup {Account(s)}], "other")]
     \/ sync' = [sync EXCEPT ![s] =
          IF Message(s) \in StoredIds
            THEN NextMessage([@ EXCEPT
                   !.last = [NoLast EXCEPT !.gmailId = Message(s), !.db = "exists"],
                   !.clean = FALSE])
            ELSE [@ EXCEPT !.pc = "persist", !.last = NoLast]]
  /\ UNCHANGED <<mailbox, email, lastSyncedAt, nCategories, now, runs, env, proc, unsub, det, attempts, api, queue, gmailAccounts, oauth, client, cron, norm, vault, site, providerCalls>>

\* per message: the AI block, prisma.email.create, archiveEmail, the counter.
\* archiveEmail changes only the provider's labels and its failure is caught.
SyncPersist(s) ==
  /\ sync[s].pc = "persist"
  /\ \E o \in AIOutcomes(Classifies(s)) :
       LET ai == SyncAI(s, o)
           rec == [sync[s] EXCEPT
                     !.totalProcessed = IF s = "manual" THEN @ + ai.processed ELSE @,
                     !.accountProcessed = IF s = "cron" THEN @ + ai.processed ELSE @,
                     !.last = [gmailId |-> Message(s), ai |-> o.ai,
                               response |-> o.response, db |-> "none"]]
           u == SyncUnsubscribe(Payload[Message(s)])
           row == [gmailAccountId |-> Account(s), summary |-> ai.summary,
                   categoryId |-> ai.categoryId, archived |-> FALSE,
                   unsubscribeLink |-> u.unsubscribeLink,
                   unsubscribeMethod |-> u.unsubscribeMethod]
       IN
       \/ /\ env.faults
          /\ sync' = [sync EXCEPT ![s] =
               MessageCatch(s, [rec EXCEPT !.last.db = "dberror", !.clean = FALSE,
                                           !.failed = @ \cup {Account(s)}], "other")]
          /\ UNCHANGED email
       \/ /\ UniqueViolation(Message(s))
          /\ sync' = [sync EXCEPT ![s] =
               MessageCatch(s, [rec EXCEPT !.last.db = "P2002", !.clean = FALSE], "P2002")]
          /\ UNCHANGED email
       \/ /\ ~UniqueViolation(Message(s))
          /\ email' = [email EXCEPT ![Message(s)] = Append(@, row)]
          /\ sync' = [sync EXCEPT ![s] =
               NextMessage([rec EXCEPT
                 !.last.db = "created",
                 !.totalNewEmails = IF s = "manual" THEN @ + 1 ELSE @,
                 !.accountNewEmails = IF s = "cron" THEN @ + 1 ELSE @])]
  /\ UNCHANGED <<mailbox, lastSyncedAt, nCategories, now, runs, env, proc, unsub, det, attempts, api, queue, gmailAccounts, oauth, client, cron, norm, vault, site, providerCalls>>

\* after the message loop: prisma.gmailAccount.update sets lastSyncedAt; cron
\* then adds the account's counters to the totals and pushes its result
SyncMark(s) ==
  /\ sync[s].pc = "mark"
  /\ \/ /\ env.faults
        /\ sync' = [sync EXCEPT ![s] = AccountCatch(s, [@ EXCEPT !.clean = FALSE])]
        /\ UNCHANGED lastSyncedAt
     \/ /\ lastSyncedAt' = [lastSyncedAt EXCEPT ![Account(s)] = {now}]
        /\ sync' = [sync EXCEPT ![s] =
             NextAccount([@ EXCEPT
               !.marked = @ \cup {Account(s)},
               !.totalNewEmails = IF s = "cron" THEN @ + sync[s].accountNewEmails ELSE @,
               !.totalProcessed = IF s = "cron" THEN @ + sync[s].accountProcessed ELSE @,
               !.results = IF s = "cron"
                 THEN Append(@, [account |-> Account(s), status |-> "success",
                                 newEmails |-> sync[s].accountNewEmails])
                 ELSE @])]
  /\ UNCHANGED <<mailbox, email, nCategories, now, runs, env, proc, unsub, det, attempts, api, queue, gmailAccounts, oauth, client, cron, norm, vault, site, providerCalls>>

\* the response has been returned to the caller
SyncReturn(s) ==
  /\ sync[s].pc = "done"
  /\ sync' = [sync EXCEPT ![s] = IdleSync]
  /\ UNCHANGED <<mailbox, email, lastSyncedAt, nCategories, now, runs, env, proc, unsub, det, attempts, api, queue, gmailAccounts, oauth, client, cron, norm, vault, site, providerCalls>>

\* time passes
Tick ==
  /\ now < MaxTime
  /\ now' = now + 1
  /\ UNCHANGED <<mailbox, email, lastSyncedAt, nCategories, runs, env, sync, proc, unsub, det, attempts, api, queue, gmailAccounts, oauth, client, cron, norm, vault, site, providerCalls>>

(* ---------------- the process route ---------------- *)

\* the default of MAX_EMAILS_PER_PROCESS
MaxToProcess == 20

\* parseInt of the decimal strings the variable is set to
ParseInt(str) == CASE str = "1" -> 1 [] str = "2" -> 2 [] str = "3" -> 3

\* parseInt(process.env.MAX_EMAILS_PER_PROCESS || '20')
ParsedMaxToProcess ==
  IF env.MAX_EMAILS_PER_PROCESS = NULL THEN MaxToProcess
  ELSE ParseInt(env.MAX_EMAILS_PER_PROCESS)

\* the order of "orderBy receivedAt desc" among the stored rows
ProcessOrder == <<"m3", "m2", "m1">>

IdleProcess ==
  [pc |-> "idle", status |-> 0, emails |-> <<>>, i |-> 1, processed |-> 0,
   failed |-> <<>>, last |-> NoLast]

\* POST entered: without categories it answers 400; else it reads up to
\* maxToProcess rows with a null category, newest first
ProcessPost ==
  /\ proc.pc = "idle"
  /\ \A t \in Routes : sync[t].pc = "idle"
  /\ LET emails == Take(FilterSeq(ProcessOrder,
                     {g \in StoredIds : email[g][1].categoryId = NULL}),
                     ParsedMaxToProcess) IN
     proc' =
       IF nCategories = 0 THEN [IdleProcess EXCEPT !.pc = "done", !.status = 400]
       ELSE IF emails = <<>> THEN [IdleProcess EXCEPT !.pc = "done", !.status = 200]
       ELSE [IdleProcess EXCEPT !.pc = "loop", !.emails = emails]
  /\ UNCHANGED <<mailbox, email, lastSyncedAt, nCategories, now, env, sync, unsub, det, attempts, api, queue, gmailAccounts, oauth, client, cron, norm, vault, site, providerCalls>>

\* an invocation among the MaxRuns invocations of a bounded run
ProcessStart ==
  /\ runs < MaxRuns
  /\ runs' = runs + 1
  /\ ProcessPost

\* one of the invocations of a client that invokes the route again and again
ProcessRepeat ==
  /\ runs' = runs
  /\ ProcessPost

\* one iteration of the loop: classifyEmail, summarizeEmail, the update of
\* category and summary, archiveEmail and, if it succeeded, the update of
\* the archived flag; an error of the first three is pushed to failed
ProcessEmail ==
  /\ proc.pc = "loop"
  /\ \E o \in AIOutcomes(TRUE),
        archiveSuccess \in IF ConfigError THEN {FALSE} ELSE BOOLEAN :
       LET g == proc.emails[proc.i]
           next == IF proc.i < Len(proc.emails)
                     THEN [proc EXCEPT !.i = @ + 1]
                     ELSE [proc EXCEPT !.pc = "done", !.status = 200]
       IN
       IF o.ai = "ok"
         THEN /\ email' = [email EXCEPT ![g][1] =
                   [@ EXCEPT !.categoryId = ClassifyEmail(o.response).categoryId,
                             !.summary = "s",
                             !.archived = @ \/ archiveSuccess]]
              /\ proc' = [next EXCEPT !.processed = @ + 1,
                            !.last = [gmailId |-> g, ai |-> "ok",
                                      response |-> o.response, db |-> "updated"]]
              /\ providerCalls' = providerCalls \cup {ViaQueue("modify")}
         ELSE /\ ~archiveSuccess
              /\ email' = email
              /\ proc' = [next EXCEPT !.failed = Append(@, g),
                            !.last = [gmailId |-> g, ai |-> o.ai,
                                      response |-> NULL, db |-> "none"]]
              /\ UNCHANGED providerCalls
  /\ UNCHANGED <<mailbox, lastSyncedAt, nCategories, now, runs, env, sync, unsub, det, attempts, api, queue, gmailAccounts, oauth, client, cron, norm, vault, site>>

\* the response has been returned to the caller
ProcessReturn ==
  /\ proc.pc = "done"
  /\ proc' = IdleProcess
  /\ UNCHANGED <<mailbox, email, lastSyncedAt, nCategories, now, runs, env, sync, unsub, det, attempts, api, queue, gmailAccounts, oauth, client, cron, norm, vault, site, providerCalls>>

(* ---------------- the unsubscribe executor ---------------- *)

Urls == {"mailto", "https"}

\* what the GET of Tier 1 does: it rejects, answers a status that is not
\* 2xx, or answers 2xx with a body that does or does not match one of
\* SUCCESS_PATTERNS
FetchOutcomes == {"throws", "not-ok", "confirmed", "unconfirmed"}

NoResult == [success |-> FALSE, method |-> "none", message |-> "none"]

Result(success, method, message) ==
  [success |-> success, method |-> method, message |-> message]

\* most buttons and most links of a page
MaxElements == 2

\* UNSUBSCRIBE_PATTERNS, in list order
UNSUBSCRIBE_PATTERNS ==
  <<"unsubscribe", "opt.?out", "remove.*email", "stop.*emails",
    "cancel.*subscription", "do.*not.*send", "delete.*subscription",
    "confirm.*unsubscribe">>

\* texts of buttons and links, and pattern.test(text) on them
ElementTexts == {"Unsubscribe me", "Opt out", "Home"}
PatternTest(pattern, text) ==
  \/ pattern = "unsubscribe" /\ text = "Unsubscribe me"
  \/ pattern = "opt.?out" /\ text = "Opt out"

\* a page: what page.locator('button').all() and page.locator('a').all() give
Sites == [buttons : SeqsUpTo(ElementTexts, MaxElements),
          links : SeqsUpTo(ElementTexts, MaxElements)]
PlainSite == [buttons |-> <<>>, links |-> <<"Unsubscribe me">>]

\* the first element of the list whose text matches the pattern, 0 if none
FirstMatch(pattern, elements) ==
  IF \E i \in 1..Len(elements) : PatternTest(pattern, elements[i])
  THEN CHOOSE i \in 1..Len(elements) :
         /\ PatternTest(pattern, elements[i])
         /\ \A j \in 1..(i - 1) : ~PatternTest(pattern, elements[j])
  ELSE 0

\* (variant: every button is tried against every pattern before any link)
ClickElementsButtonsFirst(p, page) ==
  LET any(elements) ==
        {i \in 1..Len(elements) :
           \E q \in 1..Len(UNSUBSCRIBE_PATTERNS) :
             PatternTest(UNSUBSCRIBE_PATTERNS[q], elements[i])}
      first(S) == CHOOSE i \in S : \A j \in S : i <= j
  IN IF any(page.buttons) # {}
       THEN <<[kind |-> "button", i |-> first(any(page.buttons))]>>
     ELSE IF any(page.links) # {}
       THEN <<[kind |-> "link", i |-> first(any(page.links))]>>
     ELSE <<>>

\* the loop over UNSUBSCRIBE_PATTERNS from pattern p on (155-186): per
\* pattern the buttons, then the links; it stops at the first click
RECURSIVE ClickElements(_, _)
ClickElements(p, page) ==
  IF p > Len(UNSUBSCRIBE_PATTERNS) THEN <<>>
  ELSE IF FirstMatch(UNSUBSCRIBE_PATTERNS[p], page.buttons) # 0
    THEN <<[kind |-> "button", i |-> FirstMatch(UNSUBSCRIBE_PATTERNS[p], page.buttons)]>>
  ELSE IF FirstMatch(UNSUBSCRIBE_PATTERNS[p], page.links) # 0
    THEN <<[kind |-> "link", i |-> FirstMatch(UNSUBSCRIBE_PATTERNS[p], page.links)]>>
  ELSE ClickElements(p + 1, page)

IdleUnsub ==
  [pc |-> "idle", state |-> "INIT", url |-> "none", fetch |-> "none",
   tier1Result |-> NoResult, tier2Result |-> NoResult,
   browser |-> "none", page |-> FALSE, clicked |-> FALSE,
   result |-> NoResult, thrown |-> FALSE,
   hasError |-> FALSE, searched |-> FALSE, clickedElements |-> <<>>,
   hasSuccess |-> FALSE,
   screenshotPaths |-> {}]

\* (variant: a 2xx answer without confirmation counts as success)
ExecuteHeaderUnsubscribeLenient(url, fetch) ==
  IF url = "mailto" THEN Result(FALSE, "header", "mailto")
  ELSE IF fetch = "throws" THEN Result(FALSE, "header", "failed to execute")
  ELSE IF fetch = "not-ok" THEN Result(FALSE, "header", "http status")
  ELSE Result(TRUE, "header", "unsubscribed")

\* executeHeaderUnsubscribe
ExecuteHeaderUnsubscribe(url, fetch) ==
  IF url = "mailto" THEN Result(FALSE, "header", "mailto")
  ELSE IF fetch = "throws" THEN Result(FALSE, "header", "failed to execute")
  ELSE IF fetch = "not-ok" THEN Result(FALSE, "header", "http status")
  ELSE IF fetch = "confirmed" THEN Result(TRUE, "header", "unsubscribed")
  ELSE Result(FALSE, "header", "no clear confirmation")

\* browser.close() followed by the return of executeSimpleUnsubscribe
CloseAndReturn(u, result) ==
  [u EXCEPT !.browser = "closed", !.tier2Result = result, !.pc = "tier2-returned"]

\* (variant: the blocked result carries no screenshot)
BlockedNoArtifact(u) ==
  CloseAndReturn([u EXCEPT !.hasError = TRUE],
                 Result(FALSE, "simple-click", "captcha or login"))

\* a page that matches ERROR_PATTERNS (137-146): browser.close() and the
\* failure result with the before screenshot
Blocked(u) ==
  CloseAndReturn([u EXCEPT !.hasError = TRUE, !.screenshotPaths = {"before"}],
                 Result(FALSE, "simple-click", "captcha or login"))

\* (variant: the catch block returns without closing the browser)
CatchBlockLeaks(u) ==
  [u EXCEPT !.tier2Result = Result(FALSE, "simple-click", "automation failed"),
            !.pc = "tier2-returned"]

\* the catch block of executeSimpleUnsubscribe: the error screenshot, whose
\* failure is swallowed, then browser.close() and the failure result
CatchBlock(u) ==
  CloseAndReturn(u, Result(FALSE, "simple-click", "automation failed"))

\* unsubscribeEmail is called
UnsubscribeEmail ==
  /\ unsub.pc = "idle"
  /\ runs < MaxRuns
  /\ runs' = runs + 1
  /\ \E url \in Urls :
       unsub' = [IdleUnsub EXCEPT !.pc = "tier1", !.url = url]
  /\ UNCHANGED <<mailbox, email, lastSyncedAt, nCategories, now, env, sync, proc, det, attempts, api, queue, gmailAccounts, oauth, client, cron, norm, vault, site, providerCalls>>

\* Tier 1 runs; fetch is not called for a mailto: url
Tier1Attempt ==
  /\ unsub.pc = "tier1"
  /\ \E fetch \in IF unsub.url = "mailto" THEN {"none"} ELSE FetchOutcomes :
       unsub' = [unsub EXCEPT !.pc = "tier1-returned", !.state = "TIER1_ATTEMPT",
                   !.fetch = fetch,
                   !.tier1Result = ExecuteHeaderUnsubscribe(unsub.url, fetch)]
  /\ UNCHANGED <<mailbox, email, lastSyncedAt, nCategories, now, runs, env, sync, proc, det, attempts, api, queue, gmailAccounts, oauth, client, cron, norm, vault, site, providerCalls>>

\* unsubscribeEmail returns the Tier 1 result if it succeeded, else goes on
Tier1Return ==
  /\ unsub.pc = "tier1-returned"
  /\ unsub' = IF unsub.tier1Result.success
                THEN [unsub EXCEPT !.pc = "exit", !.state = "DONE_SUCCESS",
                                   !.result = unsub.tier1Result]
                ELSE [unsub EXCEPT !.pc = "launch", !.state = "TIER2_ATTEMPT"]
  /\ UNCHANGED <<mailbox, email, lastSyncedAt, nCategories, now, runs, env, sync, proc, det, attempts, api, queue, gmailAccounts, oauth, client, cron, norm, vault, site, providerCalls>>

\* chromium.launch, before the try block: its rejection leaves
\* executeSimpleUnsubscribe and unsubscribeEmail as an exception
Launch ==
  /\ unsub.pc = "launch"
  /\ \E launched \in BOOLEAN :
       unsub' = IF launched
                  THEN [unsub EXCEPT !.pc = "newPage", !.browser = "open"]
                  ELSE [unsub EXCEPT !.pc = "exit", !.thrown = TRUE]
  /\ UNCHANGED <<mailbox, email, lastSyncedAt, nCategories, now, runs, env, sync, proc, det, attempts, api, queue, gmailAccounts, oauth, client, cron, norm, vault, site, providerCalls>>

\* browser.newPage
NewPage ==
  /\ unsub.pc = "newPage"
  /\ \E ok \in BOOLEAN :
       unsub' = IF ok THEN [unsub EXCEPT !.pc = "goto", !.page = TRUE]
                      ELSE [unsub EXCEPT !.pc = "catch"]
  /\ UNCHANGED <<mailbox, email, lastSyncedAt, nCategories, now, runs, env, sync, proc, det, attempts, api, queue, gmailAccounts, oauth, client, cron, norm, vault, site, providerCalls>>

\* page.goto, which rejects (timeout) or answers; an answer that is not ok
\* is thrown; then the before screenshot
Goto ==
  /\ unsub.pc = "goto"
  /\ \E loaded \in BOOLEAN, shot \in BOOLEAN :
       unsub' = IF loaded /\ shot THEN [unsub EXCEPT !.pc = "scan"]
                                  ELSE [unsub EXCEPT !.pc = "catch"]
  /\ UNCHANGED <<mailbox, email, lastSyncedAt, nCategories, now, runs, env, sync, proc, det, attempts, api, queue, gmailAccounts, oauth, client, cron, norm, vault, site, providerCalls>>

\* the scan for ERROR_PATTERNS: a blocked page closes the browser and fails
ScanErrors ==
  /\ unsub.pc = "scan"
  /\ \E hasError \in BOOLEAN :
       unsub' = IF hasError THEN Blocked(unsub)
                             ELSE [unsub EXCEPT !.pc = "find"]
  /\ UNCHANGED <<mailbox, email, lastSyncedAt, nCategories, now, runs, env, sync, proc, det, attempts, api, queue, gmailAccounts, oauth, client, cron, norm, vault, site, providerCalls>>

\* the search through UNSUBSCRIBE_PATTERNS on buttons and links and the
\* click; when nothing matched, a screenshot, browser.close() and failure
FindAndClick ==
  /\ unsub.pc = "find"
  /\ \E throws \in BOOLEAN, shot \in BOOLEAN :
       LET elements == ClickElements(1, site) IN
       unsub' = IF throws THEN [unsub EXCEPT !.pc = "catch"]
                ELSE IF elements # <<>>
                  THEN [unsub EXCEPT !.pc = "wait", !.clicked = TRUE, !.searched = TRUE,
                                     !.clickedElements = elements]
                ELSE IF shot
                  THEN CloseAndReturn([unsub EXCEPT !.searched = TRUE,
                                                    !.screenshotPaths = {"before", "after"}],
                                      Result(FALSE, "simple-click", "not found"))
                ELSE [unsub EXCEPT !.pc = "catch", !.searched = TRUE]
  /\ UNCHANGED <<mailbox, email, lastSyncedAt, nCategories, now, runs, env, sync, proc, det, attempts, api, queue, gmailAccounts, oauth, client, cron, norm, vault, site, providerCalls>>

\* the wait after the click, the after screenshot, the scan for
\* SUCCESS_PATTERNS, browser.close() and the result
Confirm ==
  /\ unsub.pc = "wait"
  /\ \E shot \in BOOLEAN, hasSuccess \in BOOLEAN :
       unsub' = IF ~shot THEN [unsub EXCEPT !.pc = "catch"]
                ELSE IF hasSuccess
                  THEN CloseAndReturn([unsub EXCEPT !.hasSuccess = TRUE,
                                                    !.screenshotPaths = {"before", "after"}],
                                      Result(TRUE, "simple-click", "unsubscribed"))
                ELSE CloseAndReturn([unsub EXCEPT !.screenshotPaths = {"before", "after"}],
                                    Result(FALSE, "simple-click", "not confirmed"))
  /\ UNCHANGED <<mailbox, email, lastSyncedAt, nCategories, now, runs, env, sync, proc, det, attempts, api, queue, gmailAccounts, oauth, client, cron, norm, vault, site, providerCalls>>

\* an error thrown inside the try block
Catch ==
  /\ unsub.pc = "catch"
  /\ \E shot \in BOOLEAN :
       unsub' = [CatchBlock(unsub) EXCEPT
                   !.screenshotPaths = IF unsub.page /\ shot THEN {"after"} ELSE {}]
  /\ UNCHANGED <<mailbox, email, lastSyncedAt, nCategories, now, runs, env, sync, proc, det, attempts, api, queue, gmailAccounts, oauth, client, cron, norm, vault, site, providerCalls>>

\* unsubscribeEmail returns the Tier 2 result, with the message wrapped if
\* it failed
Tier2Return ==
  /\ unsub.pc = "tier2-returned"
  /\ unsub' = IF unsub.tier2Result.success
                THEN [unsub EXCEPT !.pc = "exit", !.state = "DONE_SUCCESS",
                                   !.result = unsub.tier2Result]
                ELSE [unsub EXCEPT !.pc = "exit", !.state = "DONE_FAILED",
                                   !.result = unsub.tier2Result]
  /\ UNCHANGED <<mailbox, email, lastSyncedAt, nCategories, now, runs, env, sync, proc, det, attempts, api, queue, gmailAccounts, oauth, client, cron, norm, vault, site, providerCalls>>

\* the caller has the result or the exception
UnsubReturn ==
  /\ unsub.pc = "exit"
  /\ unsub' = IdleUnsub
  /\ UNCHANGED <<mailbox, email, lastSyncedAt, nCategories, now, runs, env, sync, proc, det, attempts, api, queue, gmailAccounts, oauth, client, cron, norm, vault, site, providerCalls>>

(* ---------------- the unsubscribe routes ---------------- *)

Users == {"u1", "u2"}

\* gmailAccount.userId
UserOf == [a1 |-> "u1", a2 |-> "u1", x1 |-> "u2"]

\* the stored emails of the accounts of a user
Owned(user) == {g \in StoredIds : UserOf[email[g][1].gmailAccountId] = user}

\* the order in which findMany returns rows
StoreOrder == <<"m1", "m2", "m3">>

\* the url handed to the executor, as far as the executor tells urls apart
UrlOf(link) == IF "mailto:" \in StartsWith[link] THEN "mailto" ELSE "https"

\* the delay between two unsubscribes of the bulk loop, in milliseconds
UnsubscribeDelay == 2000

\* started: the attempts the request has started; waited: the time it has
\* slept since the last of them ended
IdleApi ==
  [route |-> "none", pc |-> "idle", user |-> "none", items |-> <<>>, i |-> 1,
   attemptId |-> 0, status |-> 0, started |-> 0, waited |-> 0]

Pending(emailId, method) ==
  [emailId |-> emailId, status |-> "pending", method |-> method, completedAt |-> {}]

\* unsubscribeAttempt.update with the result of the executor
Completed(attempt, result) ==
  [attempt EXCEPT !.status = IF result.success THEN "success" ELSE "failed",
                  !.method = result.method, !.completedAt = {now}]

\* unsubscribeAttempt.update after an exception
Failed(attempt) == [attempt EXCEPT !.status = "failed", !.completedAt = {now}]

\* the most recent attempt of an email, or 0
LatestAttempt(emailId) ==
  LET ids == {k \in 1..Len(attempts) : attempts[k].emailId = emailId}
  IN IF ids = {} THEN 0 ELSE CHOOSE k \in ids : \A j \in ids : j <= k

\* an email of the user with an unsubscribe link
Unsubscribable(user) == {g \in Owned(user) : email[g][1].unsubscribeLink # NULL}

\* POST of the route that only records the attempt: the email is looked up,
\* a pending attempt is created and the response says "initiated"
UnsubscribeInitiate ==
  /\ api.pc = "idle"
  /\ runs < MaxRuns
  /\ runs' = runs + 1
  /\ \E user \in Users, id \in GmailIds :
       IF id \in Unsubscribable(user)
         THEN /\ attempts' = Append(attempts, Pending(id, email[id][1].unsubscribeMethod))
              /\ api' = [IdleApi EXCEPT !.route = "initiate", !.pc = "done", !.user = user,
                           !.attemptId = Len(attempts) + 1, !.status = 200]
         ELSE /\ attempts' = attempts
              /\ api' = [IdleApi EXCEPT !.route = "initiate", !.pc = "done", !.user = user,
                           !.status = 404]
  /\ UNCHANGED <<mailbox, email, lastSyncedAt, nCategories, now, env, sync, proc, unsub, det, queue, gmailAccounts, oauth, client, cron, norm, vault, site, providerCalls>>

\* POST of the single unsubscribe route up to the call of unsubscribeEmail:
\* the email is looked up, a pending attempt is created (an error of the
\* create answers 500) and the executor is started
UnsubscribeStart ==
  /\ api.pc = "idle"
  /\ runs < MaxRuns
  /\ runs' = runs + 1
  /\ \E user \in Users, id \in GmailIds, created \in BOOLEAN :
       LET req == [IdleApi EXCEPT !.route = "single", !.user = user] IN
       IF id \notin Unsubscribable(user)
         THEN /\ created
              /\ api' = [req EXCEPT !.pc = "done", !.status = 404]
              /\ UNCHANGED <<attempts, unsub>>
       ELSE IF ~created
         THEN /\ env.faults
              /\ api' = [req EXCEPT !.pc = "done", !.status = 500]
              /\ UNCHANGED <<attempts, unsub>>
       ELSE /\ attempts' = Append(attempts, Pending(id, email[id][1].unsubscribeMethod))
            /\ api' = [req EXCEPT !.pc = "running", !.attemptId = Len(attempts) + 1]
            /\ unsub' = [IdleUnsub EXCEPT !.pc = "tier1",
                           !.url = UrlOf(email[id][1].unsubscribeLink)]
  /\ UNCHANGED <<mailbox, email, lastSyncedAt, nCategories, now, env, sync, proc, det, queue, gmailAccounts, oauth, client, cron, norm, vault, site, providerCalls>>

\* the single route after the executor: the attempt is updated with the
\* result; after an exception of the executor or of that update it is
\* updated as failed, and an error of this second update answers 500
UnsubscribeFinish ==
  /\ api.route = "single"
  /\ api.pc = "running"
  /\ unsub.pc = "exit"
  /\ unsub' = IdleUnsub
  /\ \E updated \in BOOLEAN, marked \in BOOLEAN :
       /\ (~updated \/ ~marked) => env.faults
       /\ (~unsub.thrown /\ updated) => marked
       /\ IF ~unsub.thrown /\ updated
            THEN /\ attempts' = [attempts EXCEPT ![api.attemptId] =
                                   Completed(@, unsub.result)]
                 /\ api' = [api EXCEPT !.pc = "done", !.status = 200]
          ELSE IF marked
            THEN /\ attempts' = [attempts EXCEPT ![api.attemptId] = Failed(@)]
                 /\ api' = [api EXCEPT !.pc = "done", !.status = 200]
          ELSE /\ attempts' = attempts
               /\ api' = [api EXCEPT !.pc = "done", !.status = 500]
  /\ UNCHANGED <<mailbox, email, lastSyncedAt, nCategories, now, runs, env, sync, proc, det, queue, gmailAccounts, oauth, client, cron, norm, vault, site, providerCalls>>

\* the bulk loop moves to the next email or to the response
NextItem(req) ==
  IF req.i < Len(req.items) THEN [req EXCEPT !.pc = "item", !.i = @ + 1]
                            ELSE [req EXCEPT !.pc = "done", !.status = 200]

\* the catch block of the bulk loop: the most recent attempt of the email,
\* if there is one, is updated as failed; an error of that is swallowed
BulkCatch(emailId, marked) ==
  IF LatestAttempt(emailId) # 0 /\ marked
    THEN [attempts EXCEPT ![LatestAttempt(emailId)] = Failed(@)]
    ELSE attempts

\* POST of the bulk route up to its loop: the emails of the ids that belong
\* to the user are read (none: 404), those with a link are kept (none: 400)
BulkStart ==
  /\ api.pc = "idle"
  /\ runs < MaxRuns
  /\ runs' = runs + 1
  /\ \E user \in Users, emailIds \in SUBSET GmailIds \ {{}} :
       LET req == [IdleApi EXCEPT !.route = "bulk", !.user = user]
           emails == FilterSeq(StoreOrder, emailIds \cap Owned(user))
           unsubscribableEmails == FilterSeq(emails, Unsubscribable(user))
       IN api' = IF emails = <<>> THEN [req EXCEPT !.pc = "done", !.status = 404]
                 ELSE IF unsubscribableEmails = <<>>
                   THEN [req EXCEPT !.pc = "done", !.status = 400]
                 ELSE [req EXCEPT !.pc = "item", !.items = unsubscribableEmails]
  /\ UNCHANGED <<mailbox, email, lastSyncedAt, nCategories, now, env, sync, proc, unsub, det, attempts, queue, gmailAccounts, oauth, client, cron, norm, vault, site, providerCalls>>

\* one iteration of the bulk loop up to the call of unsubscribeEmail: a
\* pending attempt is created and the executor started; an error of the
\* create goes to the catch block
BulkItemStart ==
  /\ api.route = "bulk"
  /\ api.pc = "item"
  /\ \E created \in BOOLEAN, marked \in BOOLEAN :
       LET id == api.items[api.i] IN
       IF created
         THEN /\ marked
              /\ attempts' = Append(attempts, Pending(id, email[id][1].unsubscribeMethod))
              /\ api' = [api EXCEPT !.pc = "running", !.attemptId = Len(attempts) + 1,
                                     !.started = @ + 1]
              /\ unsub' = [IdleUnsub EXCEPT !.pc = "tier1",
                             !.url = UrlOf(email[id][1].unsubscribeLink)]
         ELSE /\ env.faults
              /\ attempts' = BulkCatch(id, marked)
              /\ api' = NextItem(api)
              /\ unsub' = unsub
  /\ UNCHANGED <<mailbox, email, lastSyncedAt, nCategories, now, runs, env, sync, proc, det, queue, gmailAccounts, oauth, client, cron, norm, vault, site, providerCalls>>

\* the rest of the iteration: the attempt is updated with the result and
\* the loop sleeps UnsubscribeDelay; an exception of the executor or of the
\* update goes to the catch block, which does not sleep
BulkItemFinish ==
  /\ api.route = "bulk"
  /\ api.pc = "running"
  /\ unsub.pc = "exit"
  /\ unsub' = IdleUnsub
  /\ \E updated \in BOOLEAN, marked \in BOOLEAN :
       /\ (~updated \/ ~marked) => env.faults
       /\ (~unsub.thrown /\ updated) => marked
       /\ attempts' = IF ~unsub.thrown /\ updated
                        THEN [attempts EXCEPT ![api.attemptId] = Completed(@, unsub.result)]
                        ELSE BulkCatch(api.items[api.i], marked)
       /\ api' = NextItem([api EXCEPT !.waited = IF ~unsub.thrown /\ updated
                                                    THEN UnsubscribeDelay ELSE 0])
  /\ UNCHANGED <<mailbox, email, lastSyncedAt, nCategories, now, runs, env, sync, proc, det, queue, gmailAccounts, oauth, client, cron, norm, vault, site, providerCalls>>

\* the response of an unsubscribe route has been returned
ApiReturn ==
  /\ api.pc = "done"
  /\ api' = IdleApi
  /\ UNCHANGED <<mailbox, email, lastSyncedAt, nCategories, now, runs, env, sync, proc, unsub, det, attempts, queue, gmailAccounts, oauth, client, cron, norm, vault, site, providerCalls>>

(* ---------------- the request queue ---------------- *)

\* new PQueue({ concurrency: 5 })
Concurrency == 5

Ops == 1..MaxOps

IdleQueue == [op |-> [o \in Ops |-> "new"], waiting |-> <<>>]

Running(q) == {o \in Ops : q.op[o] = "running"}

\* (variant: a waiting operation is started whatever is running)
TryToStartAnotherUnbounded(q) ==
  IF q.waiting # <<>>
    THEN [q EXCEPT !.op[Head(q.waiting)] = "running", !.waiting = Tail(@)]
    ELSE q

\* the queue starts its first waiting operation if fewer than Concurrency
\* operations are running
TryToStartAnother(q) ==
  IF q.waiting # <<>> /\ Cardinality(Running(q)) < Concurrency
    THEN [q EXCEPT !.op[Head(q.waiting)] = "running", !.waiting = Tail(@)]
    ELSE q

\* queue.add of the operations lo..hi one after the other
RECURSIVE AddAll(_, _, _)
AddAll(q, lo, hi) ==
  IF lo > hi THEN q
  ELSE AddAll(TryToStartAnother([q EXCEPT !.op[lo] = "waiting",
                                          !.waiting = Append(@, lo)]), lo + 1, hi)

\* a caller submits operations: the list of a fetch, the gets of its
\* messages (all at once, under Promise.all) or the modify of an archive
QueueAdd ==
  \E lo \in Ops, hi \in Ops :
    /\ lo <= hi
    /\ queue.op[lo] = "new"
    /\ \A o \in Ops : o < lo => queue.op[o] # "new"
    /\ queue' = AddAll(queue, lo, hi)
    /\ UNCHANGED <<mailbox, email, lastSyncedAt, nCategories, now, runs, env, sync, proc, unsub, det, attempts, api, gmailAccounts, oauth, client, cron, norm, vault, site, providerCalls>>

\* a running operation resolves or rejects, and the queue goes on
QueueSettle ==
  \E o \in Running(queue), outcome \in {"resolved", "rejected"} :
    /\ queue' = TryToStartAnother([queue EXCEPT !.op[o] = outcome])
    /\ UNCHANGED <<mailbox, email, lastSyncedAt, nCategories, now, runs, env, sync, proc, unsub, det, attempts, api, gmailAccounts, oauth, client, cron, norm, vault, site, providerCalls>>

(* ---------------- the Gmail accounts of a user ---------------- *)

\* the account limit of add-account and of the callback
MaxAccounts == 5

\* the Google addresses the user may connect; the first is the user's own
Addresses == {"e1", "e2", "e3", "e4", "e5", "e6"}
UserEmail == "e1"

NoAccount == [status |-> "none", accessToken |-> NULL, expiresAt |-> {}]

\* what Google may answer to a token exchange or a sign-in: an access token
\* with its expiry, or neither
TokenResponses == {[accessToken |-> "t1", expiresAt |-> {now + 1}],
            [accessToken |-> NULL, expiresAt |-> {}]}

ActiveAccounts == {e \in Addresses : gmailAccounts[e].status = "active"}

IdleOAuth == [issued |-> FALSE, checked |-> {}]

\* update of an existing row or create of a new one, active in both cases
Connect(address, tokens) ==
  [gmailAccounts EXCEPT ![address] =
     [status |-> "active", accessToken |-> tokens.accessToken, expiresAt |-> tokens.expiresAt]]

\* GET add-account: refused at MaxAccounts active accounts, else the OAuth
\* state is issued
AddAccount ==
  /\ Cardinality(ActiveAccounts) < MaxAccounts
  /\ ~oauth.issued
  /\ oauth' = [oauth EXCEPT !.issued = TRUE]
  /\ UNCHANGED <<mailbox, email, lastSyncedAt, nCategories, now, runs, env, sync, proc, unsub, det, attempts, api, queue, gmailAccounts, client, cron, norm, vault, site, providerCalls>>

\* GET callback up to the lookup of the address: the state is valid, the
\* code is exchanged, and the request is refused at MaxAccounts active
\* accounts
CallbackCheck ==
  /\ oauth.issued
  /\ Cardinality(oauth.checked) < MaxCallbacks
  /\ Cardinality(ActiveAccounts) < MaxAccounts
  /\ \E address \in Addresses \ oauth.checked :
       oauth' = [oauth EXCEPT !.checked = @ \cup {address}]
  /\ UNCHANGED <<mailbox, email, lastSyncedAt, nCategories, now, runs, env, sync, proc, unsub, det, attempts, api, queue, gmailAccounts, client, cron, norm, vault, site, providerCalls>>

\* the rest of the callback: the row of the address is updated, or created
CallbackWrite ==
  /\ \E address \in oauth.checked, tokens \in TokenResponses :
       /\ gmailAccounts' = Connect(address, tokens)
       /\ oauth' = [oauth EXCEPT !.checked = @ \ {address}]
  /\ UNCHANGED <<mailbox, email, lastSyncedAt, nCategories, now, runs, env, sync, proc, unsub, det, attempts, api, queue, client, cron, norm, vault, site, providerCalls>>

\* DELETE accounts?id=: soft delete
SoftDelete ==
  /\ \E address \in Addresses :
       /\ gmailAccounts[address].status = "active"
       /\ gmailAccounts' = [gmailAccounts EXCEPT ![address].status = "inactive"]
  /\ UNCHANGED <<mailbox, email, lastSyncedAt, nCategories, now, runs, env, sync, proc, unsub, det, attempts, api, queue, oauth, client, cron, norm, vault, site, providerCalls>>

\* PATCH accounts/[id]: isActive is written as sent
PatchAccount(address, isActive) ==
  [gmailAccounts EXCEPT ![address].status = IF isActive THEN "active" ELSE "inactive"]

Patch ==
  /\ \E address \in Addresses, isActive \in BOOLEAN :
       /\ gmailAccounts[address].status = IF isActive THEN "inactive" ELSE "active"
       /\ gmailAccounts' = PatchAccount(address, isActive)
  /\ UNCHANGED <<mailbox, email, lastSyncedAt, nCategories, now, runs, env, sync, proc, unsub, det, attempts, api, queue, oauth, client, cron, norm, vault, site, providerCalls>>

\* DELETE accounts/[id]: the row is deleted
HardDelete ==
  /\ \E address \in Addresses :
       /\ gmailAccounts[address].status # "none"
       /\ gmailAccounts' = [gmailAccounts EXCEPT ![address] = NoAccount]
  /\ UNCHANGED <<mailbox, email, lastSyncedAt, nCategories, now, runs, env, sync, proc, unsub, det, attempts, api, queue, oauth, client, cron, norm, vault, site, providerCalls>>

\* sign-in with Google: the row of the user's own address is updated, or
\* created, without a look at the number of accounts
SignIn ==
  /\ \E tokens \in TokenResponses :
       /\ gmailAccounts[UserEmail] # [status |-> "active", accessToken |-> tokens.accessToken,
                                      expiresAt |-> tokens.expiresAt]
       /\ gmailAccounts' = Connect(UserEmail, tokens)
  /\ UNCHANGED <<mailbox, email, lastSyncedAt, nCategories, now, runs, env, sync, proc, unsub, det, attempts, api, queue, oauth, client, cron, norm, vault, site, providerCalls>>

(* ---------------- getGmailClient ---------------- *)

IdleClient ==
  [pc |-> "idle", account |-> "none", hadToken |-> FALSE, dueAt |-> {},
   calledAt |-> 0, refreshed |-> FALSE, persisted |-> FALSE, error |-> "none"]

\* account.expiresAt && new Date(account.expiresAt) <= new Date()
NeedsRefresh(account) == \E t \in account.expiresAt : t <= now

\* the catch block of the refresh: it logs and throws, the row is as it was
RefreshFailed(address) == gmailAccounts

\* getGmailClient up to the expiry check: the row is read; a missing or an
\* inactive account throws; the client is returned as it is unless the
\* stored expiry has passed
GetGmailClient ==
  /\ client.pc = "idle"
  /\ runs < MaxRuns
  /\ runs' = runs + 1
  /\ \E address \in Addresses :
       LET account == gmailAccounts[address]
           call == [IdleClient EXCEPT !.account = address, !.calledAt = now,
                      !.hadToken = account.accessToken # NULL,
                      !.dueAt = account.expiresAt]
       IN client' =
            IF account.status = "none" THEN [call EXCEPT !.pc = "thrown", !.error = "not found"]
            ELSE IF account.status = "inactive"
              THEN [call EXCEPT !.pc = "thrown", !.error = "inactive"]
            ELSE IF NeedsRefresh(account) THEN [call EXCEPT !.pc = "refresh"]
            ELSE [call EXCEPT !.pc = "returned"]
  /\ UNCHANGED <<mailbox, email, lastSyncedAt, nCategories, now, env, sync, proc, unsub, det, attempts, api, queue, gmailAccounts, oauth, cron, norm, vault, site, providerCalls>>

\* refreshAccessToken and the update of the row with the new access token
\* and expiry; an error of either is thrown as 'Failed to refresh Gmail
\* access token'
ClientRefresh ==
  /\ client.pc = "refresh"
  /\ \E outcome \in {"refreshed", "refresh failed", "update failed"},
        expiry \in {{}, {now + 1}} :
       IF outcome = "refreshed"
         THEN /\ gmailAccounts' = [gmailAccounts EXCEPT ![client.account] =
                   [@ EXCEPT !.accessToken = "t2", !.expiresAt = expiry]]
              /\ client' = [client EXCEPT !.pc = "returned", !.refreshed = TRUE,
                              !.persisted = TRUE]
         ELSE /\ expiry = {}
              /\ gmailAccounts' = RefreshFailed(client.account)
              /\ client' = [client EXCEPT !.pc = "thrown", !.error = outcome,
                              !.refreshed = (outcome = "update failed")]
  /\ UNCHANGED <<mailbox, email, lastSyncedAt, nCategories, now, runs, env, sync, proc, unsub, det, attempts, api, queue, oauth, cron, norm, vault, site, providerCalls>>

\* the caller has the client, or the error
ClientReturn ==
  /\ client.pc \in {"returned", "thrown"}
  /\ client' = IdleClient
  /\ UNCHANGED <<mailbox, email, lastSyncedAt, nCategories, now, runs, env, sync, proc, unsub, det, attempts, api, queue, gmailAccounts, oauth, cron, norm, vault, site, providerCalls>>

(* ---------------- the email routes ---------------- *)

\* category.userId
CategoryOwner == [c1 |-> "u1", c2 |-> "u1"]

\* the provider after messages.trash of the given ids
Trash(ids) == [a \in DOMAIN mailbox |-> FilterSeq(mailbox[a], GmailIds \ ids)]

\* POST bulk-delete: the emails of the ids that belong to the user are read
\* (none: 404) and moved to the trash at the provider, a failure of which is
\* counted; then deleteMany removes the rows of all the ids of the request
BulkDelete ==
  /\ api.pc = "idle"
  /\ runs < MaxRuns
  /\ runs' = runs + 1
  /\ \E user \in Users, emailIds \in SUBSET GmailIds \ {{}} :
       LET req == [IdleApi EXCEPT !.route = "bulk-delete", !.user = user]
           emails == emailIds \cap Owned(user)
       IN IF emails = {}
            THEN /\ api' = [req EXCEPT !.pc = "done", !.status = 404]
                 /\ UNCHANGED <<mailbox, email, providerCalls>>
            ELSE /\ \E trashed \in SUBSET emails :
                      /\ IF ConfigError THEN trashed = {}
                         ELSE env.faults \/ trashed = emails
                      /\ mailbox' = Trash(trashed)
                      /\ providerCalls' = IF trashed = {} THEN providerCalls
                                          ELSE providerCalls \cup {Direct("trash")}
                 /\ email' = [g \in GmailIds |-> IF g \in emailIds THEN <<>> ELSE email[g]]
                 /\ api' = [req EXCEPT !.pc = "done", !.status = 200]
  /\ UNCHANGED <<lastSyncedAt, nCategories, now, env, sync, proc, unsub, det, attempts, queue, gmailAccounts, oauth, client, cron, norm, vault, site>>

\* PATCH emails/[id]/category: the email must belong to the user and so
\* must the category, if one is given; then the category is written
CategoryPatch ==
  /\ api.pc = "idle"
  /\ runs < MaxRuns
  /\ runs' = runs + 1
  /\ \E user \in Users, id \in GmailIds, categoryId \in CategoryIds \cup {NULL} :
       LET req == [IdleApi EXCEPT !.route = "category", !.user = user] IN
       IF id \notin Owned(user) \/ (categoryId # NULL /\ CategoryOwner[categoryId] # user)
         THEN /\ api' = [req EXCEPT !.pc = "done", !.status = 404]
              /\ email' = email
         ELSE /\ api' = [req EXCEPT !.pc = "done", !.status = 200]
              /\ email' = [email EXCEPT ![id][1].categoryId = categoryId]
  /\ UNCHANGED <<mailbox, lastSyncedAt, nCategories, now, env, sync, proc, unsub, det, attempts, queue, gmailAccounts, oauth, client, cron, norm, vault, site, providerCalls>>

(* ---------------- the secret of the cron endpoint ---------------- *)

\* what CRON_SECRET may be set to ("" is not set) and what a request may
\* carry as authorization header (the bearer token, "" for no header)
Secrets == {"", "s1"}
Headers == {"", "s1", "s2"}

IdleCron == [secret |-> "s1", header |-> "", status |-> 0]

\* (variant: a request without authorization header is let through)
CronStatusLenient(cronSecret, authHeader) ==
  IF cronSecret = "" THEN 500
  ELSE IF authHeader # "" /\ authHeader # cronSecret THEN 401
  ELSE 200

\* the answer of the secret check: 500 without configured secret, 401 for
\* a header other than "Bearer <secret>", else the request goes on
CronStatus(cronSecret, authHeader) ==
  IF cronSecret = "" THEN 500
  ELSE IF authHeader # cronSecret THEN 401
  ELSE 200

\* POST cron/sync-emails: the secret check, and after it the sync
CronPost ==
  \E authHeader \in Headers :
    /\ sync["cron"].pc = "idle"
    /\ runs < MaxRuns
    /\ cron' = [cron EXCEPT !.header = authHeader,
                  !.status = CronStatus(cron.secret, authHeader)]
    /\ IF CronStatus(cron.secret, authHeader) = 200
         THEN SyncEnter("cron")
         ELSE runs' = runs + 1 /\ sync' = sync
    /\ UNCHANGED <<mailbox, email, lastSyncedAt, nCategories, now, env, proc, unsub, det, attempts, api, queue, gmailAccounts, oauth, client, norm, vault, site, providerCalls>>

(* ---------------- a run of unsubscribe detection ---------------- *)

NoInfo == [url |-> NULL, method |-> "none"]
NoParsed == [unsubscribeLink |-> NULL, unsubscribeMethod |-> "none"]

IdleDetect ==
  [pc |-> "idle", headers |-> <<>>, body |-> <<>>, info |-> NoInfo, stored |-> NoParsed]

\* extractUnsubscribeInfo is applied to a header and a body, and the sync
\* routes derive from them the link and method they store
Detect ==
  /\ det.pc = "input"
  /\ det' = [det EXCEPT !.pc = "done",
               !.info = ExtractUnsubscribeInfo(det.body, det.headers),
               !.stored = SyncUnsubscribe([headers |-> det.headers, body |-> det.body])]
  /\ UNCHANGED <<mailbox, email, lastSyncedAt, nCategories, now, runs, env, sync, proc, unsub, attempts, api, queue, gmailAccounts, oauth, client, cron, norm, vault, site, providerCalls>>

(* ---------------- parseEmailMessage: the stored body ---------------- *)

\* most segments a body is made of
MaxSegments == 2

\* maximum email body size to store (50KB)
MAX_BODY_SIZE == 50 * 1024

\* a body is a string of UTF-16 code units, written as segments of `chars`
\* code units that each take `width` bytes in UTF-8 (1: ASCII, 2: Latin and
\* Cyrillic letters, 3: CJK characters and most symbols)
SegmentChars == {1000, 25600, 51200, 60000}
Widths == {1, 2, 3}
Segments == [chars : SegmentChars, width : Widths]

\* Buffer.byteLength(body, 'utf8')
RECURSIVE ByteLength(_)
ByteLength(body) ==
  IF body = <<>> THEN 0
  ELSE Head(body).chars * Head(body).width + ByteLength(Tail(body))

\* body.substring(0, n): the first n code units
RECURSIVE Substring(_, _)
Substring(body, n) ==
  IF body = <<>> \/ n <= 0 THEN <<>>
  ELSE IF Head(body).chars <= n
       THEN <<Head(body)>> \o Substring(Tail(body), n - Head(body).chars)
       ELSE <<[Head(body) EXCEPT !.chars = n]>>

IdleNormalize == [pc |-> "idle", raw |-> <<>>, body |-> <<>>, bodyTruncated |-> FALSE]

\* parseEmailMessage 285-291: the size test is on bytes, the cut on code units
TruncateBody(body) ==
  IF ByteLength(body) > MAX_BODY_SIZE
  THEN [body |-> Substring(body, MAX_BODY_SIZE), bodyTruncated |-> TRUE]
  ELSE [body |-> body, bodyTruncated |-> FALSE]

ParseEmailMessage ==
  /\ norm.pc = "input"
  /\ norm' = [norm EXCEPT !.pc = "done",
                !.body = TruncateBody(norm.raw).body,
                !.bodyTruncated = TruncateBody(norm.raw).bodyTruncated]
  /\ UNCHANGED <<mailbox, email, lastSyncedAt, nCategories, now, runs, env, sync, proc, unsub, det, attempts, api, queue, gmailAccounts, oauth, client, cron, vault, site, providerCalls>>

(* ---------------- lib/encryption: encrypt and decrypt ---------------- *)

\* longest plaintext, in UTF-16 code units
MaxText == 2
\* number of encrypt calls
MaxSeals == 2

SALT_LENGTH == 64
IV_LENGTH == 16
TAG_LENGTH == 16
TAG_POSITION == SALT_LENGTH + IV_LENGTH
ENCRYPTED_POSITION == TAG_POSITION + TAG_LENGTH

\* values of process.env.ENCRYPTION_KEY
Keys == {"k1", "k2"}

\* UTF-16 code units of a plaintext: one-, two- and three-byte characters and
\* the two halves of a surrogate pair (a character outside the BMP)
Units == {"a", "e'", "ni", "hi", "lo"}

\* well-formed text: every high surrogate is followed by a low one and every
\* low surrogate follows a high one
WellFormed(text) ==
  \A i \in 1..Len(text) :
    /\ text[i] = "hi" => i < Len(text) /\ text[i + 1] = "lo"
    /\ text[i] = "lo" => i > 1 /\ text[i - 1] = "hi"

Texts == {text \in SeqsUpTo(Units, MaxText) : WellFormed(text)}

\* cipher.update(text, 'utf8'): the UTF-8 bytes of a string; a surrogate not
\* part of a pair is encoded as U+FFFD
RECURSIVE Utf8Encode(_)
Utf8Encode(text) ==
  IF text = <<>> THEN <<>>
  ELSE IF Head(text) = "a" THEN <<"61">> \o Utf8Encode(Tail(text))
  ELSE IF Head(text) = "e'" THEN <<"c3", "a9">> \o Utf8Encode(Tail(text))
  ELSE IF Head(text) = "ni" THEN <<"e4", "bd", "a0">> \o Utf8Encode(Tail(text))
  ELSE IF Head(text) = "hi" /\ Len(text) > 1 /\ text[2] = "lo"
       THEN <<"f0", "9f", "8c", "8d">> \o Utf8Encode(Tail(Tail(text)))
  ELSE <<"ef", "bf", "bd">> \o Utf8Encode(Tail(text))

\* decrypted.toString('utf8')
RECURSIVE Utf8Decode(_)
Utf8Decode(bytes) ==
  IF bytes = <<>> THEN <<>>
  ELSE IF Head(bytes) = "61" THEN <<"a">> \o Utf8Decode(Tail(bytes))
  ELSE IF Len(bytes) >= 2 /\ SubSeq(bytes, 1, 2) = <<"c3", "a9">>
       THEN <<"e'">> \o Utf8Decode(SubSeq(bytes, 3, Len(bytes)))
  ELSE IF Len(bytes) >= 3 /\ SubSeq(bytes, 1, 3) = <<"e4", "bd", "a0">>
       THEN <<"ni">> \o Utf8Decode(SubSeq(bytes, 4, Len(bytes)))
  ELSE IF Len(bytes) >= 4 /\ SubSeq(bytes, 1, 4) = <<"f0", "9f", "8c", "8d">>
       THEN <<"hi", "lo">> \o Utf8Decode(SubSeq(bytes, 5, Len(bytes)))
  ELSE <<"?">> \o Utf8Decode(Tail(bytes))

\* crypto.randomBytes(n): n bytes of the id-th draw; draws never repeat
RandomBytes(id, n) == [i \in 1..n |-> [v |-> <<"random", id, i>>, flip |-> FALSE]]

\* crypto.pbkdf2Sync(key, salt, 100000, 32, 'sha512')
Pbkdf2(key, salt) == [key |-> key, salt |-> salt]

\* AES-256-GCM is an ideal cipher: what the n-th encrypt call output stands
\* for is kept in calls[n] (derived key, iv, input bytes, output bytes), and
\* an output byte is named by its call and position

\* cipher.update(text, 'utf8') and cipher.final() of the n-th call
CipherUpdate(n, bytes) ==
  [i \in 1..Len(bytes) |-> [v |-> <<"aes", n, i>>, flip |-> FALSE]]

\* cipher.getAuthTag() of the n-th call
GetAuthTag(n) ==
  [i \in 1..TAG_LENGTH |-> [v |-> <<"tag", n, i>>, flip |-> FALSE]]

\* decipher.update: the input byte where the byte is intact and is read at its
\* position under the key and iv it was written with
DecipherUpdate(calls, derivedKey, iv, encrypted) ==
  [i \in 1..Len(encrypted) |->
     LET byte == encrypted[i] IN
     IF /\ ~byte.flip
        /\ byte.v[1] = "aes"
        /\ byte.v[3] = i
        /\ calls[byte.v[2]].derivedKey = derivedKey
        /\ calls[byte.v[2]].iv = iv
     THEN calls[byte.v[2]].bytes[i] ELSE "?"]

\* decipher.final() after setAuthTag(tag): the tag is the one a call issued
\* for this key, iv and ciphertext
VerifyAuthTag(calls, derivedKey, iv, encrypted, tag) ==
  \E n \in 1..Len(calls) :
    /\ tag = GetAuthTag(n)
    /\ calls[n].derivedKey = derivedKey
    /\ calls[n].iv = iv
    /\ calls[n].encrypted = encrypted

\* encrypt 30-60 as the n-th call, with the configured key and two draws
Seal(key, text, n) ==
  LET salt == RandomBytes(2 * n - 1, SALT_LENGTH)
      iv == RandomBytes(2 * n, IV_LENGTH)
      derivedKey == Pbkdf2(key, salt)
      bytes == Utf8Encode(text)
      encrypted == CipherUpdate(n, bytes)
      tag == GetAuthTag(n)
  IN [call |-> [derivedKey |-> derivedKey, iv |-> iv, bytes |-> bytes,
                encrypted |-> encrypted],
      combined |-> salt \o iv \o tag \o encrypted]

NoUnseal == [ok |-> FALSE, text |-> <<>>]

\* (variant: the auth tag is not verified)
UnsealUnverified(calls, key, combined) ==
  LET salt == SubSeq(combined, 1, SALT_LENGTH)
      iv == SubSeq(combined, SALT_LENGTH + 1, TAG_POSITION)
      encrypted == SubSeq(combined, ENCRYPTED_POSITION + 1, Len(combined))
  IN [ok |-> TRUE,
      text |-> Utf8Decode(DecipherUpdate(calls, Pbkdf2(key, salt), iv, encrypted))]

\* decrypt 68-98: split the buffer, derive the key, verify the tag, decode
Unseal(calls, key, combined) ==
  LET salt == SubSeq(combined, 1, SALT_LENGTH)
      iv == SubSeq(combined, SALT_LENGTH + 1, TAG_POSITION)
      tag == SubSeq(combined, TAG_POSITION + 1, ENCRYPTED_POSITION)
      encrypted == SubSeq(combined, ENCRYPTED_POSITION + 1, Len(combined))
      derivedKey == Pbkdf2(key, salt)
  IN IF VerifyAuthTag(calls, derivedKey, iv, encrypted, tag)
     THEN [ok |-> TRUE,
           text |-> Utf8Decode(DecipherUpdate(calls, derivedKey, iv, encrypted))]
     ELSE NoUnseal

\* one bit of byte p flipped (p = 0: the buffer as it is)
FlipBit(combined, p) ==
  IF p = 0 THEN combined ELSE [combined EXCEPT ![p].flip = TRUE]

\* the bytes a flip is tried on: the first and the last byte of the salt, of
\* the iv and of the tag, and every byte of the encrypted data
FlipPositions(combined) ==
  {0, 1, SALT_LENGTH, SALT_LENGTH + 1, TAG_POSITION, TAG_POSITION + 1, ENCRYPTED_POSITION}
    \cup (ENCRYPTED_POSITION + 1)..Len(combined)

IdleVault ==
  [key |-> "k1", text |-> <<>>, sealed |-> <<>>, calls |-> <<>>,
   last |-> [op |-> "none", ok |-> FALSE, text |-> <<>>, of |-> 0, flipped |-> 0, key |-> NULL]]

\* process.env.ENCRYPTION_KEY is set, changed or deleted
SetKey ==
  /\ vault.last.op # "decrypt"
  /\ \E k \in Keys \cup {NULL} :
       /\ k # vault.key
       /\ vault' = [vault EXCEPT !.key = k]
  /\ UNCHANGED <<mailbox, email, lastSyncedAt, nCategories, now, runs, env, sync, proc, unsub, det, attempts, api, queue, gmailAccounts, oauth, client, cron, norm, site, providerCalls>>

\* encrypt(text): throws without a key (getEncryptionKey 17-19)
Encrypt ==
  /\ vault.last.op # "decrypt"
  /\ Len(vault.sealed) < MaxSeals
  /\ IF vault.key = NULL
     THEN vault' = [vault EXCEPT !.last = [op |-> "encrypt", ok |-> FALSE, text |-> <<>>,
                                            of |-> 0, flipped |-> 0, key |-> NULL]]
     ELSE LET s == Seal(vault.key, vault.text, Len(vault.calls) + 1)
          IN vault' = [vault EXCEPT
                         !.sealed = Append(@, s.combined),
                         !.calls = Append(@, s.call),
                         !.last = [op |-> "encrypt", ok |-> TRUE, text |-> <<>>,
                                   of |-> Len(vault.sealed) + 1, flipped |-> 0,
                                   key |-> vault.key]]
  /\ UNCHANGED <<mailbox, email, lastSyncedAt, nCategories, now, runs, env, sync, proc, unsub, det, attempts, api, queue, gmailAccounts, oauth, client, cron, norm, site, providerCalls>>

\* decrypt(encryptedData) of a sealed value, as it is or with one bit flipped;
\* it changes nothing but its result, and a behaviour ends with the one
\* decrypt it observes
Decrypt ==
  /\ vault.last.op # "decrypt"
  /\ \E c \in 1..Len(vault.sealed) :
       \E p \in FlipPositions(vault.sealed[c]) :
         LET r == IF vault.key = NULL THEN NoUnseal
                  ELSE Unseal(vault.calls, vault.key, FlipBit(vault.sealed[c], p))
         IN vault' = [vault EXCEPT !.last = [op |-> "decrypt", ok |-> r.ok, text |-> r.text,
                                             of |-> c, flipped |-> p, key |-> vault.key]]
  /\ UNCHANGED <<mailbox, email, lastSyncedAt, nCategories, now, runs, env, sync, proc, unsub, det, attempts, api, queue, gmailAccounts, oauth, client, cron, norm, site, providerCalls>>

InitStore ==
  /\ email = [g \in GmailIds |-> <<>>]
  /\ lastSyncedAt = [a \in AccountSet |-> {}]
  /\ nCategories \in {0, 2}
  /\ now = 1
  /\ runs = 0
  /\ sync = [s \in Routes |-> IdleSync]
  /\ proc = IdleProcess
  /\ unsub = IdleUnsub
  /\ det = IdleDetect
  /\ attempts = <<>>
  /\ api = IdleApi
  /\ queue = IdleQueue
  /\ gmailAccounts = [e \in Addresses |-> NoAccount]
  /\ oauth = IdleOAuth
  /\ client = IdleClient
  /\ cron = IdleCron
  /\ norm = IdleNormalize
  /\ providerCalls = {}

\* invocations one after the other, in an environment where calls may fail
\* and the master key may be missing
Init ==
  /\ InitStore
  /\ \E key \in {NULL, "k1"} : vault = [IdleVault EXCEPT !.key = key]
  /\ site = PlainSite
  /\ mailbox = [a1 |-> <<"m1", "m2", "m3">>, a2 |-> <<>>]
  /\ env = [overlap |-> FALSE, faults |-> TRUE, MAX_EMAILS_PER_PROCESS |-> NULL]

\* overlapping invocations (manual and cron at once), calls succeed
InitRace ==
  /\ InitStore
  /\ vault = IdleVault
  /\ site = PlainSite
  /\ mailbox = [a1 |-> <<"m1", "m2">>, a2 |-> <<>>]
  /\ env = [overlap |-> TRUE, faults |-> FALSE, MAX_EMAILS_PER_PROCESS |-> NULL]

Next ==
  \/ \E s \in Routes : SyncStart(s)
  \/ \E s \in Routes : SyncAccount(s)
  \/ \E s \in Routes : SyncFetch(s)
  \/ \E s \in Routes : SyncFilter(s)
  \/ \E s \in Routes : SyncCheck(s)
  \/ \E s \in Routes : SyncPersist(s)
  \/ \E s \in Routes : SyncMark(s)
  \/ \E s \in Routes : SyncReturn(s)
  \/ Tick

\* sync and process invocations one after the other, calls succeed
InitGate ==
  /\ InitStore
  /\ vault = IdleVault
  /\ site = PlainSite
  /\ mailbox = [a1 |-> <<"m1", "m2">>, a2 |-> <<>>]
  /\ env = [overlap |-> FALSE, faults |-> FALSE, MAX_EMAILS_PER_PROCESS |-> NULL]

NextGate ==
  \/ Next
  \/ ProcessStart
  \/ ProcessEmail
  \/ ProcessReturn

Spec == Init /\ [][Next]_vars

SpecGate == InitGate /\ [][NextGate]_vars

\* invocations of the unsubscribe executor on an empty store
InitUnsub ==
  /\ InitStore
  /\ vault = IdleVault
  /\ site \in Sites
  /\ nCategories = 0
  /\ mailbox = [a1 |-> <<>>, a2 |-> <<>>]
  /\ env = [overlap |-> FALSE, faults |-> TRUE, MAX_EMAILS_PER_PROCESS |-> NULL]

NextUnsub ==
  \/ UnsubscribeEmail
  \/ Tier1Attempt
  \/ Tier1Return
  \/ Launch
  \/ NewPage
  \/ Goto
  \/ ScanErrors
  \/ FindAndClick
  \/ Confirm
  \/ Catch
  \/ Tier2Return
  \/ UnsubReturn

SpecUnsub == InitUnsub /\ [][NextUnsub]_vars

\* the row a sync stores for a message of an account
StoredRow(account, g) ==
  [gmailAccountId |-> account, summary |-> "s", categoryId |-> NULL, archived |-> FALSE,
   unsubscribeLink |-> SyncUnsubscribe(Payload[g]).unsubscribeLink,
   unsubscribeMethod |-> SyncUnsubscribe(Payload[g]).unsubscribeMethod]

\* unsubscribe requests, one after the other, on a store that syncs have
\* filled; calls of the database may fail
InitAttempt ==
  /\ mailbox = [a1 |-> <<>>, a2 |-> <<>>]
  /\ email = [m1 |-> <<StoredRow("a1", "m1")>>, m2 |-> <<StoredRow("a1", "m2")>>,
              m3 |-> <<StoredRow("x1", "m3")>>]
  /\ lastSyncedAt = [a \in AccountSet |-> {1}]
  /\ nCategories = 2
  /\ now = 1
  /\ runs = 0
  /\ env = [overlap |-> FALSE, faults |-> TRUE, MAX_EMAILS_PER_PROCESS |-> NULL]
  /\ sync = [s \in Routes |-> IdleSync]
  /\ proc = IdleProcess
  /\ unsub = IdleUnsub
  /\ det = IdleDetect
  /\ attempts = <<>>
  /\ api = IdleApi
  /\ queue = IdleQueue
  /\ gmailAccounts = [e \in Addresses |-> NoAccount]
  /\ oauth = IdleOAuth
  /\ client = IdleClient
  /\ cron = IdleCron
  /\ norm = IdleNormalize
  /\ vault = IdleVault
  /\ site = PlainSite
  /\ providerCalls = {}

NextAttempt ==
  \/ UnsubscribeInitiate
  \/ UnsubscribeStart
  \/ UnsubscribeFinish
  \/ BulkStart
  \/ BulkItemStart
  \/ BulkItemFinish
  \/ ApiReturn
  \/ Tier1Attempt
  \/ Tier1Return
  \/ Launch
  \/ NewPage
  \/ Goto
  \/ ScanErrors
  \/ FindAndClick
  \/ Confirm
  \/ Catch
  \/ Tier2Return

SpecAttempt == InitAttempt /\ [][NextAttempt]_vars

\* callers submitting operations to the request queue
InitQueue ==
  /\ InitStore
  /\ vault = IdleVault
  /\ site = PlainSite
  /\ nCategories = 0
  /\ mailbox = [a1 |-> <<>>, a2 |-> <<>>]
  /\ env = [overlap |-> TRUE, faults |-> TRUE, MAX_EMAILS_PER_PROCESS |-> NULL]

NextQueue ==
  \/ QueueAdd
  \/ QueueSettle

SpecQueue == InitQueue /\ [][NextQueue]_vars

\* the account operations of one user, starting without accounts
InitAccounts ==
  /\ InitStore
  /\ vault = IdleVault
  /\ site = PlainSite
  /\ nCategories = 0
  /\ mailbox = [a1 |-> <<>>, a2 |-> <<>>]
  /\ env = [overlap |-> TRUE, faults |-> FALSE, MAX_EMAILS_PER_PROCESS |-> NULL]

NextAccounts ==
  \/ AddAccount
  \/ CallbackCheck
  \/ CallbackWrite
  \/ SoftDelete
  \/ Patch
  \/ HardDelete
  \/ SignIn

SpecAccounts == InitAccounts /\ [][NextAccounts]_vars

\* calls of getGmailClient for an account that a callback or a sign-in
\* stored, with or without access token and expiry
InitClient ==
  /\ mailbox = [a1 |-> <<>>, a2 |-> <<>>]
  /\ email = [g \in GmailIds |-> <<>>]
  /\ lastSyncedAt = [a \in AccountSet |-> {}]
  /\ nCategories = 0
  /\ now = 1
  /\ runs = 0
  /\ env = [overlap |-> FALSE, faults |-> TRUE, MAX_EMAILS_PER_PROCESS |-> NULL]
  /\ sync = [s \in Routes |-> IdleSync]
  /\ proc = IdleProcess
  /\ unsub = IdleUnsub
  /\ det = IdleDetect
  /\ attempts = <<>>
  /\ api = IdleApi
  /\ queue = IdleQueue
  /\ oauth = IdleOAuth
  /\ client = IdleClient
  /\ cron = IdleCron
  /\ norm = IdleNormalize
  /\ vault = IdleVault
  /\ site = PlainSite
  /\ providerCalls = {}
  /\ \E status \in {"active", "inactive"}, tokens \in {[accessToken |-> "t1", expiresAt |-> {1}],
                                                       [accessToken |-> "t1", expiresAt |-> {2}],
                                                       [accessToken |-> NULL, expiresAt |-> {}]} :
       gmailAccounts = [e \in Addresses |->
                          IF e = UserEmail
                            THEN [status |-> status, accessToken |-> tokens.accessToken,
                                  expiresAt |-> tokens.expiresAt]
                            ELSE NoAccount]

NextClient ==
  \/ GetGmailClient
  \/ ClientRefresh
  \/ ClientReturn
  \/ Tick

SpecClient == InitClient /\ [][NextClient]_vars

\* requests on the emails of a store that syncs have filled for two users
InitDelete ==
  /\ mailbox = [a1 |-> <<"m1", "m2">>, a2 |-> <<>>]
  /\ email = [m1 |-> <<StoredRow("a1", "m1")>>, m2 |-> <<StoredRow("a1", "m2")>>,
              m3 |-> <<StoredRow("x1", "m3")>>]
  /\ lastSyncedAt = [a \in AccountSet |-> {1}]
  /\ nCategories = 2
  /\ now = 1
  /\ runs = 0
  /\ env = [overlap |-> FALSE, faults |-> TRUE, MAX_EMAILS_PER_PROCESS |-> NULL]
  /\ sync = [s \in Routes |-> IdleSync]
  /\ proc = IdleProcess
  /\ unsub = IdleUnsub
  /\ det = IdleDetect
  /\ attempts = <<>>
  /\ api = IdleApi
  /\ queue = IdleQueue
  /\ gmailAccounts = [e \in Addresses |-> NoAccount]
  /\ oauth = IdleOAuth
  /\ client = IdleClient
  /\ cron = IdleCron
  /\ norm = IdleNormalize
  /\ vault = IdleVault
  /\ site = PlainSite
  /\ providerCalls = {}

NextDelete ==
  \/ BulkDelete
  \/ CategoryPatch
  \/ ApiReturn

SpecDelete == InitDelete /\ [][NextDelete]_vars

\* requests to the cron endpoint, with and without the configured secret
InitCron ==
  /\ mailbox = [a1 |-> <<"m1", "m2">>, a2 |-> <<>>]
  /\ email = [g \in GmailIds |-> <<>>]
  /\ lastSyncedAt = [a \in AccountSet |-> {}]
  /\ nCategories = 2
  /\ now = 1
  /\ runs = 0
  /\ env = [overlap |-> FALSE, faults |-> FALSE, MAX_EMAILS_PER_PROCESS |-> NULL]
  /\ sync = [s \in Routes |-> IdleSync]
  /\ proc = IdleProcess
  /\ unsub = IdleUnsub
  /\ det = IdleDetect
  /\ attempts = <<>>
  /\ api = IdleApi
  /\ queue = IdleQueue
  /\ gmailAccounts = [e \in Addresses |-> NoAccount]
  /\ oauth = IdleOAuth
  /\ client = IdleClient
  /\ norm = IdleNormalize
  /\ vault = IdleVault
  /\ site = PlainSite
  /\ providerCalls = {}
  /\ \E secret \in Secrets : cron = [IdleCron EXCEPT !.secret = secret]

NextCron ==
  \/ CronPost
  \/ \E s \in Routes : SyncAccount(s)
  \/ \E s \in Routes : SyncFetch(s)
  \/ \E s \in Routes : SyncFilter(s)
  \/ \E s \in Routes : SyncCheck(s)
  \/ \E s \in Routes : SyncPersist(s)
  \/ \E s \in Routes : SyncMark(s)
  \/ \E s \in Routes : SyncReturn(s)
  \/ Tick

SpecCron == InitCron /\ [][NextCron]_vars

\* detection applied to every header of at most MaxUris tokens and every
\* body of at most MaxLinks anchors
InitDetect ==
  /\ mailbox = [a1 |-> <<>>, a2 |-> <<>>]
  /\ email = [g \in GmailIds |-> <<>>]
  /\ lastSyncedAt = [a \in AccountSet |-> {}]
  /\ nCategories = 0
  /\ now = 1
  /\ runs = 0
  /\ env = [overlap |-> FALSE, faults |-> FALSE, MAX_EMAILS_PER_PROCESS |-> NULL]
  /\ sync = [s \in Routes |-> IdleSync]
  /\ proc = IdleProcess
  /\ unsub = IdleUnsub
  /\ attempts = <<>>
  /\ api = IdleApi
  /\ queue = IdleQueue
  /\ gmailAccounts = [e \in Addresses |-> NoAccount]
  /\ oauth = IdleOAuth
  /\ client = IdleClient
  /\ cron = IdleCron
  /\ norm = IdleNormalize
  /\ vault = IdleVault
  /\ site = PlainSite
  /\ providerCalls = {}
  /\ \E headers \in SeqsUpTo(Tokens, MaxUris), body \in SeqsUpTo(Links, MaxLinks) :
       det = [IdleDetect EXCEPT !.pc = "input", !.headers = headers, !.body = body]

NextDetect == Detect

SpecDetect == InitDetect /\ [][NextDetect]_vars

\* parseEmailMessage applied to every body of at most MaxSegments segments
InitNormalize ==
  /\ mailbox = [a1 |-> <<>>, a2 |-> <<>>]
  /\ email = [g \in GmailIds |-> <<>>]
  /\ lastSyncedAt = [a \in AccountSet |-> {}]
  /\ nCategories = 0
  /\ now = 1
  /\ runs = 0
  /\ env = [overlap |-> FALSE, faults |-> FALSE, MAX_EMAILS_PER_PROCESS |-> NULL]
  /\ sync = [s \in Routes |-> IdleSync]
  /\ proc = IdleProcess
  /\ unsub = IdleUnsub
  /\ attempts = <<>>
  /\ api = IdleApi
  /\ queue = IdleQueue
  /\ gmailAccounts = [e \in Addresses |-> NoAccount]
  /\ oauth = IdleOAuth
  /\ client = IdleClient
  /\ cron = IdleCron
  /\ det = IdleDetect
  /\ vault = IdleVault
  /\ site = PlainSite
  /\ providerCalls = {}
  /\ \E raw \in SeqsUpTo(Segments, MaxSegments) :
       norm = [IdleNormalize EXCEPT !.pc = "input", !.raw = raw]

NextNormalize == ParseEmailMessage

SpecNormalize == InitNormalize /\ [][NextNormalize]_vars

\* encrypt and decrypt applied to every well-formed text of at most MaxText
\* code units, under every configuration of the master key
InitVault ==
  /\ mailbox = [a1 |-> <<>>, a2 |-> <<>>]
  /\ email = [g \in GmailIds |-> <<>>]
  /\ lastSyncedAt = [a \in AccountSet |-> {}]
  /\ nCategories = 0
  /\ now = 1
  /\ runs = 0
  /\ env = [overlap |-> FALSE, faults |-> FALSE, MAX_EMAILS_PER_PROCESS |-> NULL]
  /\ sync = [s \in Routes |-> IdleSync]
  /\ proc = IdleProcess
  /\ unsub = IdleUnsub
  /\ attempts = <<>>
  /\ api = IdleApi
  /\ queue = IdleQueue
  /\ gmailAccounts = [e \in Addresses |-> NoAccount]
  /\ oauth = IdleOAuth
  /\ client = IdleClient
  /\ cron = IdleCron
  /\ det = IdleDetect
  /\ norm = IdleNormalize
  /\ site = PlainSite
  /\ providerCalls = {}
  /\ \E text \in Texts, key \in Keys \cup {NULL} :
       vault = [IdleVault EXCEPT !.text = text, !.key = key]

NextVault ==
  \/ SetKey
  \/ Encrypt
  \/ Decrypt

SpecVault == InitVault /\ [][NextVault]_vars

\* a client that invokes the process route again and again on a store of
\* three rows, some of them without a category; MAX_EMAILS_PER_PROCESS is
\* unset or set below the number of rows
InitRepeat ==
  /\ mailbox = [a1 |-> <<>>, a2 |-> <<>>]
  /\ \E categoryId \in [GmailIds -> {NULL, "c1"}] :
       email = [g \in GmailIds |->
                  <<[StoredRow("a1", g) EXCEPT !.categoryId = categoryId[g]]>>]
  /\ lastSyncedAt = [a \in AccountSet |-> {1}]
  /\ nCategories = 2
  /\ now = 1
  /\ runs = 0
  /\ \E max \in {NULL, "1", "2"} :
       env = [overlap |-> FALSE, faults |-> FALSE, MAX_EMAILS_PER_PROCESS |-> max]
  /\ sync = [s \in Routes |-> IdleSync]
  /\ proc = IdleProcess
  /\ unsub = IdleUnsub
  /\ det = IdleDetect
  /\ attempts = <<>>
  /\ api = IdleApi
  /\ queue = IdleQueue
  /\ gmailAccounts = [e \in Addresses |-> NoAccount]
  /\ oauth = IdleOAuth
  /\ client = IdleClient
  /\ cron = IdleCron
  /\ norm = IdleNormalize
  /\ vault = IdleVault
  /\ site = PlainSite
  /\ providerCalls = {}

NextRepeat ==
  \/ ProcessRepeat
  \/ ProcessEmail
  \/ ProcessReturn

\* the client keeps invoking, every awaited call of the loop settles and
\* every response is sent
SpecRepeat ==
  /\ InitRepeat
  /\ [][NextRepeat]_vars
  /\ WF_vars(ProcessRepeat)
  /\ WF_vars(ProcessEmail)
  /\ WF_vars(ProcessReturn)

SpecRace == InitRace /\ [][Next]_vars

TypeOK ==
  /\ DOMAIN email = GmailIds
  /\ now \in 1..MaxTime

(* ---------------- properties of the sync routes ---------------- *)

\* C1: under any interleaving of manual and cron sync invocations the store
\* holds at most one row per gmailId, and a row that exists for a gmailId is
\* never changed or replaced by a later step of a sync.
C1_OneRowPerGmailId ==
  /\ [](\A g \in GmailIds : Len(email[g]) <= 1)
  /\ [][\A g \in GmailIds : email[g] # <<>> => email'[g] = email[g]]_vars

\* two syncs raced on one gmailId: the create of one was rejected and the
\* row of the other is the only one stored
C1_Witness ==
  \E s \in Routes :
    /\ sync[s].last.db = "P2002"
    /\ Len(email[sync[s].last.gmailId]) = 1

\* C2: an invocation sets an account's watermark only once the account's
\* batch is behind it, and never for an account whose fetch or whose
\* message handling failed in that invocation.
C2_WatermarkOnlyAfterBatch ==
  \A s \in Routes :
    /\ sync[s].pc \in {"fetch", "filter", "check", "persist", "mark"}
         => Account(s) \notin sync[s].marked
    /\ sync[s].marked \cap sync[s].failed = {}

\* the account whose iteration of the account loop has just ended
JustSynced(s) ==
  IF sync[s].pc = "done" THEN Accounts[sync[s].acct] ELSE Accounts[sync[s].acct - 1]

\* the account's sync has just completed without any error: no call failed
\* and no listed message was found stored by somebody else meanwhile
CompletedWithoutError(s) ==
  /\ sync[s].pc \in {"account", "done"}
  /\ sync[s].pc = "account" => sync[s].acct > 1
  /\ JustSynced(s) \in sync[s].marked
  /\ sync[s].clean

RECURSIVE SumNewEmails(_)
SumNewEmails(results) ==
  IF results = <<>> THEN 0 ELSE Head(results).newEmails + SumNewEmails(Tail(results))

\* C3: when the provider listed N messages after the watermark, K of them
\* stored already, a sync of the account that completes without error has
\* stored exactly the N-K others as new rows and has advanced the watermark;
\* the cron response counts N-K new emails for the account and
\* totalNewEmails is the sum of the accounts' counts.
C3_NewRowsAndCount ==
  \A s \in Routes :
    CompletedWithoutError(s) =>
      LET listed == SeqToSet(sync[s].listed)
          N == Len(sync[s].listed)
          K == Cardinality(listed \cap sync[s].before)
          a == JustSynced(s)
      IN /\ StoredIds \ sync[s].before = listed \ sync[s].before
         /\ Cardinality(StoredIds \ sync[s].before) = N - K
         /\ \A g \in listed : Len(email[g]) = 1
         /\ lastSyncedAt[a] # {}
         /\ \A t \in lastSyncedAt[a] : t >= sync[s].after /\ t <= now
         /\ s = "cron" =>
              /\ sync[s].results[Len(sync[s].results)] =
                   [account |-> a, status |-> "success", newEmails |-> N - K]
              /\ sync[s].totalNewEmails = SumNewEmails(sync[s].results)

\* the scenario of the specification: 3 messages listed, 1 stored already,
\* the cron sync of the account stored 2 rows and reports 2 new emails
C3_Witness ==
  /\ CompletedWithoutError("cron")
  /\ JustSynced("cron") = "a1"
  /\ Len(sync["cron"].listed) = 3
  /\ Cardinality(SeqToSet(sync["cron"].listed) \cap sync["cron"].before) = 1
  /\ Cardinality(StoredIds) = 3
  /\ sync["cron"].totalNewEmails = 2

\* C4: when an invocation has returned, every account has been dealt with:
\* its sync completed, or (cron) it was skipped for lack of categories, or
\* its error is recorded in the response; cron has one result per account.
C4_AccountsIsolated ==
  \A s \in Routes :
    sync[s].pc = "done" =>
      /\ \A a \in AccountSet :
           \/ a \in sync[s].marked
           \/ a \in SeqToSet(sync[s].errors)
           \/ /\ s = "cron"
              /\ \E k \in 1..Len(sync[s].results) :
                   sync[s].results[k].account = a /\ sync[s].results[k].status = "skipped"
      /\ sync[s].marked \cap SeqToSet(sync[s].errors) = {}
      /\ s = "cron" => [k \in 1..Len(sync[s].results) |-> sync[s].results[k].account] = Accounts

\* the first account failed and is recorded, the second was still synced
C4_Witness ==
  \E s \in Routes :
    /\ sync[s].pc = "done"
    /\ sync[s].errors = <<"a1">>
    /\ "a2" \in sync[s].marked

\* C5: when summarizeEmail or classifyEmail throws for a new message, the
\* message is still handed to prisma.email.create with a null category (and
\* a null summary if summarizeEmail threw); once created, no error is
\* recorded and the loop proceeds to the next message of the batch.
C5_AIFailureDegrades ==
  [][\A s \in Routes :
       (sync[s].pc = "persist" /\ sync'[s] # sync[s]
          /\ sync'[s].last.ai \in {"sumfail", "clsfail"}) =>
         /\ sync'[s].last.db \in {"created", "P2002", "dberror"}
         /\ sync'[s].last.db = "created" =>
              LET row == email'[Message(s)][Len(email'[Message(s)])] IN
              /\ email[Message(s)] = <<>>
              /\ row.categoryId = NULL
              /\ sync'[s].last.ai = "sumfail" => row.summary = NULL
              /\ sync'[s].errors = sync[s].errors
              /\ sync'[s].acct = sync[s].acct
              /\ IF sync[s].i < Len(sync[s].emails)
                   THEN sync'[s].pc = "check" /\ sync'[s].i = sync[s].i + 1
                   ELSE sync'[s].pc = "mark"]_vars

\* summarization failed for a message, its row is stored without summary
\* and category, and the sync is at the next message
C5_Witness ==
  \E s \in Routes :
    /\ sync[s].last.ai = "sumfail"
    /\ sync[s].last.db = "created"
    /\ sync[s].pc = "check"
    /\ email[sync[s].last.gmailId][1].summary = NULL
    /\ email[sync[s].last.gmailId][1].categoryId = NULL

\* C6: a create rejected as a duplicate (P2002) is a benign skip: no counter
\* of new emails moves, no error or result is recorded, and the loop goes on
\* with the next message of the batch (or ends the batch normally).
C6_DuplicateKeyIsSkip ==
  [][\A s \in Routes :
       (sync[s].pc = "persist" /\ sync'[s] # sync[s] /\ UniqueViolation(Message(s))
          /\ sync'[s].last.db # "dberror") =>
         /\ sync'[s].last.db = "P2002"
         /\ email' = email
         /\ sync'[s].totalNewEmails = sync[s].totalNewEmails
         /\ sync'[s].accountNewEmails = sync[s].accountNewEmails
         /\ sync'[s].errors = sync[s].errors
         /\ sync'[s].results = sync[s].results
         /\ sync'[s].acct = sync[s].acct
         /\ IF sync[s].i < Len(sync[s].emails)
              THEN sync'[s].pc = "check" /\ sync'[s].i = sync[s].i + 1
              ELSE sync'[s].pc = "mark"]_vars

\* a create was rejected as a duplicate and the sync is at the next message
C6_Witness ==
  \E s \in Routes :
    /\ sync[s].last.db = "P2002"
    /\ sync[s].pc = "check"
    /\ sync[s].errors = <<>>

(* ---------------- properties of classification ---------------- *)

\* the category the claim allows to be stored for a classification response
Gate(response) ==
  IF response.confidence < 70 THEN NULL ELSE response.categoryId

\* C7: for every classification response, the category that classifyEmail
\* returns, and that sync (create) or process (update) then stores, is null
\* when the confidence is below 0.7 and the proposed category otherwise.
C7_ConfidenceGate ==
  /\ \A s \in Routes :
       (sync[s].last.ai = "ok" /\ sync[s].last.db = "created" /\ Classifies(s)) =>
         email[sync[s].last.gmailId][1].categoryId = Gate(sync[s].last.response)
  /\ proc.last.db = "updated" =>
       email[proc.last.gmailId][1].categoryId = Gate(proc.last.response)

\* process has stored null for a response of confidence 0.65 that proposed a
\* category, after a sync had stored the category proposed with 0.71
C7_Witness ==
  /\ proc.last.db = "updated"
  /\ proc.last.response.confidence = 65
  /\ proc.last.response.categoryId = "c1"
  /\ email[proc.last.gmailId][1].categoryId = NULL
  /\ \E g \in StoredIds : email[g][1].categoryId = "c2"

(* ---------------- properties of the unsubscribe executor ---------------- *)

\* C8: every invocation of unsubscribeEmail that has ended is in DONE_SUCCESS
\* or DONE_FAILED and has yielded a result record (success flag, method,
\* message).
C8_TerminalWithResult ==
  unsub.pc = "exit" =>
    /\ unsub.state \in {"DONE_SUCCESS", "DONE_FAILED"}
    /\ unsub.result # NoResult
    /\ ~unsub.thrown

\* C9: once Tier 1 has returned for a 2xx answer whose body matches no
\* success pattern, the executor is in Tier 2 or has ended through Tier 2;
\* its result, if any, is not the one of Tier 1.
C9_UnconfirmedEscalates ==
  (unsub.fetch = "unconfirmed" /\ unsub.pc \notin {"idle", "tier1", "tier1-returned"}) =>
    /\ unsub.result.method # "header"
    /\ unsub.state = "TIER2_ATTEMPT" \/ unsub.tier2Result # NoResult

\* an unconfirmed 2xx answer of Tier 1 ended as a success of Tier 2
C9_Witness ==
  /\ unsub.fetch = "unconfirmed"
  /\ unsub.pc = "exit"
  /\ unsub.state = "DONE_SUCCESS"
  /\ unsub.result.method = "simple-click"

\* C10: once executeSimpleUnsubscribe has returned or thrown, the browser it
\* launched is not open, whichever exit path was taken.
C10_BrowserClosed ==
  unsub.pc \in {"idle", "tier2-returned", "exit"} => unsub.browser # "open"

\* Tier 2 has returned through its catch block after a fault on an open
\* page, and the browser is closed
C10_Witness ==
  /\ unsub.pc = "tier2-returned"
  /\ unsub.page
  /\ unsub.tier2Result.message = "automation failed"
  /\ unsub.browser = "closed"

(* ---------------- properties of unsubscribe detection ---------------- *)

\* the URIs in angle brackets of a header, in order
BracketUris(headers) == FilterSeq(headers, Uris)

HttpUris == {"https://h/u", "http://g/u"}

\* the anchors of a body that qualify: an http href and a matching href,
\* text or class, or a footer around them
Qualifying(body) ==
  {i \in 1..Len(body) :
     /\ body[i].href \in {"https://b/unsubscribe", "https://b/home"}
     /\ \/ body[i].href = "https://b/unsubscribe"
        \/ body[i].text \/ body[i].class \/ body[i].footer}

C20_TargetNullIffNone ==
  det.pc = "done" =>
    /\ det.info.method \in {"header", "link", "none"}
    /\ (det.info.url = NULL) <=> (det.info.method = "none")
    /\ det.stored.unsubscribeMethod \in {"header", "link", "none"}
    /\ (det.stored.unsubscribeLink = NULL) <=> (det.stored.unsubscribeMethod = "none")

\* detection found only a mailto URI in the header, which the sync routes
\* do not store: they store no link and method none although the body has a
\* qualifying anchor
C20_Witness ==
  /\ det.pc = "done"
  /\ det.info = [url |-> "mailto:u@h", method |-> "header"]
  /\ Qualifying(det.body) # {}
  /\ det.stored = NoParsed

(* ---------------- properties of the unsubscribe routes ---------------- *)

\* C11: while no unsubscribe request is running, that is once every
\* invocation so far has completed, no attempt is pending: each has status
\* success or failed and a completion timestamp.
C11_NoPendingAfterCompletion ==
  api.pc \in {"idle", "done"} =>
    \A k \in 1..Len(attempts) :
      /\ attempts[k].status \in {"success", "failed"}
      /\ attempts[k].completedAt # {}

(* ---------------- properties of the provider adapter ---------------- *)

\* C12: at every moment at most 5 of the operations submitted to the request
\* queue are running, however many were submitted.
C12_AtMostFiveRunning ==
  Cardinality({o \in Ops : queue.op[o] = "running"}) <= 5

\* five operations are running while others, submitted too, wait
C12_Witness ==
  /\ Cardinality({o \in Ops : queue.op[o] = "running"}) = 5
  /\ Len(queue.waiting) >= 2

\* C13: a fetch that returned to the sync has read every message it listed:
\* a get that failed was retried until it succeeded, or the error reached
\* the caller.
C13_FailedReadRetriedOrSurfaced ==
  \A s \in Routes :
    sync[s].pc = "filter" => SeqToSet(sync[s].got) = SeqToSet(sync[s].listed)

(* ---------------- properties of the accounts ---------------- *)

\* C14: getGmailClient has refreshed the access token before it returns the
\* client exactly when the stored access token was absent or its expiry was
\* not after the time of the call, and what it refreshed is in the row.
C14_RefreshIffAbsentOrExpired ==
  client.pc = "returned" =>
    /\ client.refreshed <=>
         (~client.hadToken \/ \E t \in client.dueAt : t <= client.calledAt)
    /\ client.refreshed => client.persisted

\* C15: once the refresh of an account's access token has failed, the
\* account is inactive.
C15_RefreshFailureDeactivates ==
  (client.pc = "thrown" /\ client.error = "refresh failed") =>
    gmailAccounts[client.account].status = "inactive"

\* C16: whatever account operations have run, the user has at most 5 active
\* Gmail accounts.
C16_AtMostFiveActive ==
  Cardinality({e \in Addresses : gmailAccounts[e].status = "active"}) <= 5

(* ---------------- properties of the email routes ---------------- *)

\* C17: a request changes or removes only rows of emails that belong to the
\* accounts of the requesting user; in particular bulk-delete removes no row
\* of another user, whatever ids it is sent.
C17_OnlyOwnEmails ==
  [][\A g \in GmailIds :
       (email[g] # <<>> /\ email'[g] # email[g]) =>
         UserOf[email[g][1].gmailAccountId] = api'.user]_vars

(* ---------------- properties of the cron endpoint ---------------- *)

\* C18: a cron sync runs only after a request that carried the configured
\* secret; a request without or with a wrong secret is answered 401, one to
\* an endpoint without configured secret 500, and such a request starts no
\* sync and changes nothing of the store.
C18_SecretGuardsCron ==
  /\ [](sync["cron"].pc # "idle" => (cron.secret # "" /\ cron.header = cron.secret))
  /\ [][(cron' # cron /\ (cron.secret = "" \/ cron'.header # cron.secret)) =>
          /\ cron'.status = IF cron.secret = "" THEN 500 ELSE 401
          /\ UNCHANGED <<mailbox, email, lastSyncedAt, gmailAccounts, sync>>]_vars

\* a request with a wrong secret has been answered 401 after a sync with the
\* right one had stored messages, which are all still there
C18_Witness ==
  /\ cron.status = 401
  /\ cron.header = "s2"
  /\ sync["cron"].pc = "idle"
  /\ StoredIds = {"m1", "m2"}

(* ---------------- C21 ---------------- *)
\* C21: a body larger than the cap (51,200 bytes) is stored cut to exactly
\* the cap with the truncation flag set, and a body of at most the cap is
\* stored verbatim with the flag clear, whatever characters the body is
\* made of.
C21_TruncatedToCap ==
  norm.pc = "done" =>
    IF ByteLength(norm.raw) > MAX_BODY_SIZE
    THEN ByteLength(norm.body) = MAX_BODY_SIZE /\ norm.bodyTruncated
    ELSE norm.body = norm.raw /\ ~norm.bodyTruncated

C23_BlockedWithoutInteraction ==
  unsub.hasError =>
    /\ ~unsub.clicked
    /\ unsub.clickedElements = <<>>
    /\ "before" \in unsub.screenshotPaths
    /\ ~unsub.tier2Result.success
    /\ unsub.pc = "exit" => (unsub.state = "DONE_FAILED" /\ ~unsub.result.success /\ ~unsub.thrown)

\* the executor has returned from a blocked page that has a matching button
C23_Witness ==
  /\ unsub.pc = "exit"
  /\ unsub.hasError
  /\ ClickElements(1, site) # <<>>

(* ---------------- C24 ---------------- *)
\* the element is the first match in pattern-list order, per pattern the
\* buttons before the links, per list the first one
FirstInOrder(e, page) ==
  LET elements == IF e.kind = "button" THEN page.buttons ELSE page.links
      matches(p, l) == \E j \in 1..Len(l) : PatternTest(UNSUBSCRIBE_PATTERNS[p], l[j])
  IN \E p \in 1..Len(UNSUBSCRIBE_PATTERNS) :
       /\ e.i \in 1..Len(elements)
       /\ PatternTest(UNSUBSCRIBE_PATTERNS[p], elements[e.i])
       /\ \A j \in 1..(e.i - 1) : ~PatternTest(UNSUBSCRIBE_PATTERNS[p], elements[j])
       /\ e.kind = "link" => ~matches(p, page.buttons)
       /\ \A q \in 1..(p - 1) : ~matches(q, page.buttons) /\ ~matches(q, page.links)

\* C24: a Tier 2 attempt ends DONE_SUCCESS exactly when no blocker pattern
\* matched, one element was clicked, that element being the first button or
\* link that matches in pattern-list order (buttons before links), and the
\* content scanned after the wait matched a success pattern; when the search
\* finds no element, or the scan finds no confirmation, it ends DONE_FAILED.
C24_SuccessIffClickedAndConfirmed ==
  (unsub.pc = "exit" /\ ~unsub.tier1Result.success) =>
    /\ unsub.state = "DONE_SUCCESS" <=>
         /\ ~unsub.hasError
         /\ Len(unsub.clickedElements) = 1
         /\ FirstInOrder(unsub.clickedElements[1], site)
         /\ unsub.hasSuccess
    /\ unsub.state = "DONE_SUCCESS" <=> unsub.result.success
    /\ (unsub.searched /\ (unsub.clickedElements = <<>> \/ ~unsub.hasSuccess)) =>
         unsub.state = "DONE_FAILED"
    /\ unsub.searched =>
         (unsub.clickedElements = <<>> <=>
            \A p \in 1..Len(UNSUBSCRIBE_PATTERNS) :
              /\ FirstMatch(UNSUBSCRIBE_PATTERNS[p], site.buttons) = 0
              /\ FirstMatch(UNSUBSCRIBE_PATTERNS[p], site.links) = 0)

\* Tier 2 succeeded by clicking a link although a button matches a later
\* pattern of the list
C24_Witness ==
  /\ unsub.pc = "exit"
  /\ unsub.state = "DONE_SUCCESS"
  /\ ~unsub.tier1Result.success
  /\ unsub.clickedElements = <<[kind |-> "link", i |-> 1]>>
  /\ \E j \in 1..Len(site.buttons) : site.buttons[j] = "Opt out"

(* ---------------- C25 ---------------- *)
\* C25: every call to the Gmail API (list, get, modify, trash), on the sync,
\* process and bulk-delete paths, goes through the request queue.
C25_AllCallsQueued ==
  \A call \in providerCalls : call.queued

(* ---------------- C26 ---------------- *)
\* C26: a configuration error is not retried: when the refresh token cannot
\* be decrypted because no master key is configured, fetchNewEmails fails
\* after a single attempt.
C26_ConfigErrorNotRetried ==
  \A s \in Routes : ConfigError => sync[s].attempt <= 1

(* ---------------- C27 ---------------- *)
\* C27: in a bulk unsubscribe the attempt of the next email starts only
\* after the fixed delay that follows the previous attempt has passed,
\* whether that attempt succeeded, failed or threw.
C27_DelayBetweenAttempts ==
  (api.route = "bulk" /\ api.pc = "running" /\ api.started > 1) =>
    api.waited >= UnsubscribeDelay

(* ---------------- C28 ---------------- *)
\* C28: whenever a sync sets the watermark of an account to W, every message
\* the provider holds for that account that was received after the previous
\* watermark (on a first sync: within the lookback window before W) and up
\* to W is in the local store.
C28_NoMessageLostByWatermark ==
  [][\A a \in AccountSet :
       lastSyncedAt'[a] # lastSyncedAt[a] =>
         \A W \in lastSyncedAt'[a] :
           LET previous == IF lastSyncedAt[a] = {} THEN W - Lookback
                           ELSE CHOOSE t \in lastSyncedAt[a] : TRUE
           IN \A g \in SeqToSet(mailbox[a]) :
                (previous < ReceivedAt[g] /\ ReceivedAt[g] <= W) => email'[g] # <<>>]_vars

(* ---------------- C29 ---------------- *)
\* C29: an attempt whose status is success or failed keeps that status, and
\* a request changes no attempt but the one it created, under every
\* sequence of single and bulk requests and on every error path.
C29_TerminalAttemptImmutable ==
  [][\A k \in 1..Len(attempts) :
       /\ attempts[k].status \in {"success", "failed"} =>
            attempts'[k].status = attempts[k].status
       /\ attempts'[k] # attempts[k] => k = api.attemptId]_vars

(* ---------------- progress of the process route ---------------- *)

\* the AI service has thrown for the row the loop has just handled
ServiceFailed == proc.last.ai \in {"sumfail", "clsfail"}

\* archiveEmail has returned false for the row the loop has just updated
ProviderFailed ==
  /\ proc.last.db = "updated"
  /\ ~email[proc.last.gmailId][1].archived

\* the row of g has no category
Uncategorized(g) == g \in StoredIds /\ email[g][1].categoryId = NULL

\* the loop has classified the row of g and stored the result
Reached(g) == proc.last.gmailId = g /\ proc.last.db = "updated"

\* C30: under repeated invocations of process in which the AI service and
\* the provider always respond, every row without a category is eventually
\* classified by some invocation, also when there are more such rows than
\* the maximum of one invocation and some keep a null classification.
C30_NoUncategorizedPassedOver ==
  \/ <>ServiceFailed
  \/ <>ProviderFailed
  \/ \A g \in GmailIds : Uncategorized(g) ~> Reached(g)

====
